---- MODULE Spec2Model ----
(***************************************************************************)
(* Model of the citizenmon log engine: pkg/processor (identity resolution, *)
(* line classification, stats recording, the 5-second event aggregator)    *)
(* and pkg/stats (the persisted all-time record and the process-wide       *)
(* session registry).                                                      *)
(*                                                                         *)
(* Text is modelled as tuples of one-character strings, so that the        *)
(* character-level functions of the code (cleanName, strings.Trim,         *)
(* strings.ToLower, the [A-Za-z0-9_]+ classes) are computed and not        *)
(* assumed.  A log line is the record of the fragments the code's          *)
(* substring tests and regular expressions look at.  Time is in whole      *)
(* seconds.  Messages handed to AppendOutput are TLA+ strings.             *)
(***************************************************************************)
EXTENDS Integers, Sequences, FiniteSets, TLC

\* ------------------------------------------------------------------ bounds
\* Number of ProcessLogLine calls explored.
MaxLines == 3

\* ------------------------------------------------------------ text helpers
RECURSIVE Str(_)
\* The string made of the characters of s.
Str(s) == IF s = <<>> THEN "" ELSE s[1] \o Str(Tail(s))

UpperChars == <<"A","B","C","D","E","F","G","H","I","J","K","L","M",
                "N","O","P","Q","R","S","T","U","V","W","X","Y","Z">>
LowerChars == <<"a","b","c","d","e","f","g","h","i","j","k","l","m",
                "n","o","p","q","r","s","t","u","v","w","x","y","z">>
DigitChars == {"0","1","2","3","4","5","6","7","8","9"}
Range(s) == {s[i] : i \in DOMAIN s}
\* The class [A-Za-z0-9_] of the kill and incap expressions.
WordChars == Range(UpperChars) \cup Range(LowerChars) \cup DigitChars \cup {"_"}

LowerChar(c) ==
    IF c \in Range(UpperChars)
    THEN LowerChars[CHOOSE i \in DOMAIN UpperChars : UpperChars[i] = c]
    ELSE c
\* strings.ToLower
ToLower(s) == [i \in DOMAIN s |-> LowerChar(s[i])]

\* Number of digits at the end of s.
RECURSIVE TrailingDigits(_)
TrailingDigits(s) ==
    IF s # <<>> /\ s[Len(s)] \in DigitChars
    THEN 1 + TrailingDigits(SubSeq(s, 1, Len(s) - 1))
    ELSE 0

\* Mutant of cleanName: the instance-id suffix is kept.
cleanNameKeepSuffix(name) ==
    [i \in DOMAIN name |-> IF name[i] = "_" THEN " " ELSE name[i]]

\* cleanName: drop a trailing `_[0-9]+`, then turn every underscore into a
\* space.
cleanName(name) ==
    LET k     == TrailingDigits(name)
        clean == IF k >= 1 /\ Len(name) > k /\ name[Len(name) - k] = "_"
                 THEN SubSeq(name, 1, Len(name) - k - 1)
                 ELSE name
    IN  [i \in DOMAIN clean |-> IF clean[i] = "_" THEN " " ELSE clean[i]]

\* The cut set of strings.Trim in the legacy identity grammar: -:[]{}\",'
TrimSet == {"-", ":", "[", "]", "{", "}", "\\", "\"", ",", "'"}
RECURSIVE TrimLeft(_)
TrimLeft(s) == IF s # <<>> /\ s[1] \in TrimSet THEN TrimLeft(Tail(s)) ELSE s
RECURSIVE TrimRight(_)
TrimRight(s) ==
    IF s # <<>> /\ s[Len(s)] \in TrimSet
    THEN TrimRight(SubSeq(s, 1, Len(s) - 1))
    ELSE s
\* strings.Trim(tok, cutset)
Trim(s) == TrimRight(TrimLeft(s))

\* The longest prefix of s made of word characters: what ([A-Za-z0-9_]+)
\* captures at the start of s (empty: the group does not match).
RECURSIVE WordPrefix(_)
WordPrefix(s) ==
    IF s # <<>> /\ s[1] \in WordChars THEN <<s[1]>> \o WordPrefix(Tail(s)) ELSE <<>>
\* s is matched whole by [A-Za-z0-9_]+
IsWord(s) == s # <<>> /\ WordPrefix(s) = s

\* ------------------------------------------------------------------- names
Ann == <<"A","n","n">>
Eve == <<"E","v","e">>
Bob == <<"B","o","b">>
\* A name outside [A-Za-z0-9_]+.
Zed == <<"Z","-","9">>
SuicideKey == <<"S","u","i","c","i","d","e">>
Collision == <<"C","o","l","l","i","s","i","o","n">>
Crash == <<"C","r","a","s","h">>
CollisionLC == <<"c","o","l","l","i","s","i","o","n">>
CrashLC == <<"c","r","a","s","h">>
Gun == <<"L","_","G","u","n","_","4","2">>
Ship == <<"G","_","X","_","7">>
CorpseCause == <<"c","o","r","p","s","e">>
SuicideLC == <<"s","u","i","c","i","d","e">>
Unknown == <<"u","n","k","n","o","w","n">>

\* ------------------------------------------------------------------- lines
\* A raw log line, as the fragments the code looks at:
\*   stamp      <<t>> when the line carries a parseable timestamp, else <<>>
\*   nickname   X of the first `nickname="X"`            (<<>>: no such text)
\*   playerBr   X of the first `Player[X]`               (<<>>: no such text)
\*   character  the line contains `Character:`
\*   nameNext   the field following the first field `name` (<<>>: none)
\*   vehTrig    the line contains `CVehicle::OnAdvanceDestroyLevel`
\*   vehId, vehTo, vehCause, vehWith   groups 1, 3, 4, 5 of vehicleRegex
\*                                     (vehId = <<>>: the expression fails)
\*   killTrig   the line contains `CActor::Kill:`
\*   victim     X of `CActor::Kill: 'X'`, killer X of `killed by 'X'`,
\*   using      X of `using 'X'`, dmgType X of `with damage type 'X'`
\*   corpseWord the line contains the whole word `Corpse`
\*   ctlState   the line contains `Entering control state`
\*   playerQ    X of the first `Player 'X'`              (<<>>: none or empty)
\*   incapTrig  the line contains `Logged an incap`
\*   incapNick  the text that follows `nickname: `       (<<>>: no such text)
Blank ==
    [stamp |-> <<>>, nickname |-> <<>>, playerBr |-> <<>>, character |-> FALSE,
     nameNext |-> <<>>, vehTrig |-> FALSE, vehId |-> <<>>, vehTo |-> <<>>,
     vehCause |-> <<>>, vehWith |-> <<>>, killTrig |-> FALSE, victim |-> <<>>,
     killer |-> <<>>, using |-> <<>>, dmgType |-> <<>>, corpseWord |-> FALSE,
     ctlState |-> FALSE, playerQ |-> <<>>, incapTrig |-> FALSE, incapNick |-> <<>>]

\* <t> ... nickname="n" ...
NicknameLine(n) == [Blank EXCEPT !.nickname = n]
\* ... Player[n] ...
PlayerBrLine(n) == [Blank EXCEPT !.playerBr = n]
\* Character: ... name tok ...
LegacyLine(tok) == [Blank EXCEPT !.character = TRUE, !.nameNext = tok]
\* CVehicle::OnAdvanceDestroyLevel: Vehicle 'id' ... advanced from destroy
\* level 1 to 2 caused by 'cause' ... with 'with'
VehicleLine(id, cause, with) ==
    [Blank EXCEPT !.vehTrig = TRUE, !.vehId = id, !.vehTo = <<"2">>,
                  !.vehCause = cause, !.vehWith = with]
\* CActor::Kill: 'victim' ... killed by 'killer' ... using 'using' ... with
\* damage type 'dmg'
KillLine(victim, killer, using, dmg) ==
    [Blank EXCEPT !.killTrig = TRUE, !.victim = victim, !.killer = killer,
                  !.using = using, !.dmgType = dmg]
\* ... Corpse ... Player 'n' ...
CorpseLine(n) == [Blank EXCEPT !.corpseWord = TRUE, !.playerQ = n]
\* ... Entering control state ... Player 'n' ...
ControlStateLine(n) == [Blank EXCEPT !.ctlState = TRUE, !.playerQ = n]
\* Logged an incap ... nickname: n, ...
IncapLine(n) == [Blank EXCEPT !.incapTrig = TRUE, !.incapNick = n]

\* Timestamps carried by the lines, in seconds, and the values time.Now()
\* takes for a line without one.
Times == {94, 100, 102, 105, 108}
Clock == {102, 108}

At(shape, t) == [shape EXCEPT !.stamp = <<t>>]

\* The lines explored.  Lines that only the identity grammars or the stats
\* look at come with few timestamps, lines that the aggregator buffers with
\* all of them.
Lines ==
    {Blank, At(Blank, 105), At(Blank, 108)}
    \cup {NicknameLine(Ann), At(NicknameLine(Ann), 100), At(NicknameLine(Eve), 100),
          At(PlayerBrLine(Eve), 100),
          At(LegacyLine(<<"\"">> \o Ann \o <<"\"", ",">>), 100), LegacyLine(<<":">>)}
    \cup {At(VehicleLine(Ship, Collision, Gun), t) : t \in {94, 100, 102, 108}}
    \cup {At(VehicleLine(Ship, Bob, Gun), 100)}
    \cup {At(KillLine(Ann, Bob, Crash, <<>>), t) : t \in {102, 108}}
    \cup {KillLine(Ann, Bob, Crash, <<>>), At(KillLine(Ann, Bob, <<>>, <<>>), 102)}
    \cup {At(KillLine(Ann, Ann, Gun, <<>>), 102)}
    \cup {At(KillLine(Bob, Ann, Gun, <<>>), 102), At(KillLine(Zed, Ann, <<>>, <<>>), 102)}
    \cup {At(KillLine(Bob, Ann, <<>>, <<>>), t) : t \in {102, 108}}
    \cup {At(CorpseLine(Ann), 100), At(CorpseLine(Bob), 102)}
    \cup {At(IncapLine(Bob), t) : t \in {102, 108}}
    \cup {At(IncapLine(Ann), 102),
          At([IncapLine(Bob) EXCEPT !.killTrig = TRUE, !.victim = Eve, !.killer = Ann],
             102)}

\* ExtractLogTimestamp: the parsed timestamp and whether one was found (the
\* zero time otherwise).
ExtractLogTimestamp(line) ==
    [t |-> IF line.stamp # <<>> THEN line.stamp[1] ELSE 0,
     found |-> line.stamp # <<>>]

\* ------------------------------------------------------------ package stats
\* A Go map[string]int: a function whose domain is the set of keys present.
EmptyMap == [k \in {} |-> 0]
\* m[k], the zero value when k is absent.
Get(m, k) == IF k \in DOMAIN m THEN m[k] ELSE 0
\* m[k]++
Inc(m, k) == [x \in DOMAIN m \cup {k} |-> IF x = k THEN Get(m, k) + 1 ELSE m[x]]

\* stats.New: four empty mappings.
New == [Kills |-> EmptyMap, Deaths |-> EmptyMap, Incaps |-> EmptyMap,
        Appearances |-> EmptyMap]

\* Bytes that are no valid UTF-8 on their own (0xE4, 0xFC: Latin-1 letters),
\* and U+FFFD, the replacement rune.
InvalidBytes == {"<E4>", "<FC>"}
ReplacementRune == "<FFFD>"

\* The characters of the keys explored, in byte order (U+FFFD is written EF BF
\* BD).
ByteOrder ==
    <<"-">> \o <<"0","1","2","3","4","5","6","7","8","9">> \o UpperChars \o <<"_">>
    \o LowerChars \o <<"<E4>", "<FFFD>", "<FC>">>
Rank(c) == CHOOSE i \in DOMAIN ByteOrder : ByteOrder[i] = c

\* strings.Compare(a, b) <= 0
KeyLeq(a, b) ==
    \/ a = b
    \/ \E i \in 1..(Len(a) + 1) :
         /\ i <= Len(b)
         /\ \A j \in 1..(i - 1) : a[j] = b[j]
         /\ i = Len(a) + 1 \/ Rank(a[i]) < Rank(b[i])

\* The text encoding/json writes for a string: invalid UTF-8 is replaced by
\* U+FFFD (escapes are undone by the decoder and left out).
Coerce(k) == [i \in DOMAIN k |-> IF k[i] \in InvalidBytes THEN ReplacementRune ELSE k[i]]

\* The members encoding/json writes for a map[string]int: one per key, the key
\* coerced to valid UTF-8, in the order of the keys of the map (`orig` stands
\* for the member's position in the object).
Members(m) == {[key |-> Coerce(k), n |-> m[k], orig |-> k] : k \in DOMAIN m}

\* The JSON text Encode writes for a Stats value.
Encode(s) ==
    [Kills |-> Members(s.Kills), Deaths |-> Members(s.Deaths),
     Incaps |-> Members(s.Incaps), Appearances |-> Members(s.Appearances)]

\* The map[string]int the decoder builds from the members of an object: of
\* the members with one key, the last one written stays.
DecodeMap(members) ==
    [k \in {x.key : x \in members} |->
        (CHOOSE x \in members :
            /\ x.key = k
            /\ \A y \in members : y.key = k => KeyLeq(y.orig, x.orig)).n]

\* A nil map[string]int: it reads as an empty map (every count is 0) and an
\* assignment to one of its entries panics.  The key "<nil>" is no player name.
NilMap == [k \in {<<"<nil>">>} |-> 0]

\* The fields of a Stats value.
StatsFields == {"Kills", "Deaths", "Incaps", "Appearances"}

\* The Stats value Decode builds from a JSON object: `var s Stats` has four
\* nil maps, and only the members the text holds are decoded into it.
Decode(text) ==
    [c \in StatsFields |-> IF c \in DOMAIN text THEN DecodeMap(text[c]) ELSE NilMap]

\* Outcomes of one stats.Save: the record is written; os.Create fails and the
\* file is left as it was; os.Create truncates the file and the write fails.
SaveOutcomes == {"ok", "createErr", "writeErr"}

\* stats.Load on the files `files`: the record stored for `player`, or an
\* empty record when the name is empty, the file is missing or does not
\* decode.
Load(files, player) ==
    IF player = <<>> THEN New
    ELSE IF player \notin DOMAIN files THEN New
    ELSE IF ~files[player].valid THEN New
    ELSE Decode(files[player].s)

\* stats.Save: the files after Save(player, s) ends with `outcome`.
Save(files, player, s, outcome) ==
    IF player = <<>> \/ outcome = "createErr" THEN files
    ELSE [x \in DOMAIN files \cup {player} |->
            IF x # player THEN files[x]
            ELSE IF outcome = "ok" THEN [valid |-> TRUE, s |-> Encode(s)]
            ELSE [valid |-> FALSE, s |-> Encode(New)]]

\* The error stats.Save returns ("": nil).
SaveError(player, outcome) ==
    IF player = <<>> \/ outcome = "ok" THEN "" ELSE outcome

\* Mutant of ResetAllTime: the empty record is not saved.
ResetAllTimeNoSave(files, player, outcome) == files

\* stats.ResetAllTime: the files after the call.
ResetAllTime(files, player, outcome) ==
    IF player = <<>> THEN files ELSE Save(files, player, New, outcome)

\* stats.ResetCurrentSession: the registry is replaced by an empty map.
ResetCurrentSession == EmptyMap

\* stats.GetCurrentSession, with the maps of each owner given by `maps`.
GetCurrentSession(reg, maps, player) ==
    IF player = <<>> THEN New
    ELSE IF player \in DOMAIN reg THEN maps[reg[player]]
    ELSE New

\* stats.UpdateCurrentSession: the registry entry of `player` becomes the
\* Stats value passed in, whose four maps are the caller's own maps (Go maps
\* are references): the entry is kept here as the owner of those maps.
UpdateCurrentSession(reg, player, owner) ==
    IF player = <<>> THEN reg
    ELSE [x \in DOMAIN reg \cup {player} |-> IF x = player THEN owner ELSE reg[x]]

\* ------------------------------------------------------- event aggregator
EventVehicleDestruction == 0
EventPlayerDeath == 1
EventVehicleSpawn == 2
EventActorState == 3

\* NewEventAggregator: the aggregation window, in seconds.
TimeWindow == 5

\* Mutant of IsOld: an event exactly one window old counts as old.
IsOldInclusive(currentTime, event) == currentTime - event.Timestamp >= TimeWindow

\* The test of FlushOldEvents: currentTime.Sub(event.Timestamp) > ea.TimeWindow.
IsOld(currentTime, event) == currentTime - event.Timestamp > TimeWindow

Swap(ev, i, j) ==
    [k \in DOMAIN ev |-> IF k = i THEN ev[j] ELSE IF k = j THEN ev[i] ELSE ev[k]]

\* The sort of createMissionSummary, run from position (i, j) of its loops:
\* events[i] and events[j] are exchanged when events[i] is after events[j].
RECURSIVE SortFrom(_, _, _)
SortFrom(ev, i, j) ==
    IF i > Len(ev) - 1 THEN ev
    ELSE IF j > Len(ev) THEN SortFrom(ev, i + 1, i + 2)
    ELSE IF ev[i].Timestamp > ev[j].Timestamp THEN SortFrom(Swap(ev, i, j), i, j + 1)
    ELSE SortFrom(ev, i, j + 1)

\* The slice after the in-place sort of createMissionSummary.
SortEvents(events) == SortFrom(events, 1, 2)

\* The scan of createMissionSummary over the sorted events, from event k on.
RECURSIVE Scan(_, _, _)
Scan(ev, k, acc) ==
    IF k > Len(ev) THEN acc
    ELSE LET e == ev[k] IN
         IF e.Type = EventVehicleDestruction
         THEN Scan(ev, k + 1,
                   [acc EXCEPT !.vehicleDestroyed = TRUE,
                               !.vehicleName = e.VehicleName,
                               !.crashCause = @ \/ ToLower(e.Cause) = CollisionLC
                                                \/ ToLower(e.Weapon) = CollisionLC])
         ELSE IF e.Type = EventPlayerDeath
         THEN Scan(ev, k + 1,
                   [acc EXCEPT !.playerDied = TRUE,
                               !.playerName = e.PlayerName,
                               !.crashCause = @ \/ ToLower(e.Cause) = CrashLC
                                                \/ ToLower(e.Weapon) = CrashLC])
         ELSE Scan(ev, k + 1, acc)

\* Mutant of createMissionSummary: no summary is ever built.
createMissionSummaryNever(events) == ""

\* createMissionSummary: the combined message of a group, "" when there is
\* none.
createMissionSummary(events) ==
    IF Len(events) = 0 THEN ""
    ELSE LET a == Scan(SortEvents(events), 1,
                       [vehicleDestroyed |-> FALSE, playerDied |-> FALSE,
                        crashCause |-> FALSE, playerName |-> <<>>,
                        vehicleName |-> <<>>])
         IN  IF a.vehicleDestroyed /\ a.playerDied /\ a.crashCause /\ a.playerName # <<>>
             THEN IF a.vehicleName # <<>>
                  THEN "Mission Event: " \o Str(a.playerName) \o " crashed their "
                       \o Str(cleanName(a.vehicleName)) \o " and died"
                  ELSE "Mission Event: " \o Str(a.playerName) \o " died in a crash"
             ELSE ""

\* Mutant of CreateIndividualEventMessage: the weapon of a death is dropped.
CreateIndividualEventMessageNoWeapon(event) ==
    IF event.Type = EventVehicleDestruction
    THEN "Vehicle " \o Str(cleanName(event.VehicleName)) \o " was destroyed by "
         \o Str(event.Cause)
    ELSE IF event.Type = EventPlayerDeath
    THEN "You died by " \o Str(event.Cause)
    ELSE "You turned to a corpse"

\* CreateIndividualEventMessage
CreateIndividualEventMessage(event) ==
    IF event.Type = EventVehicleDestruction
    THEN IF event.VehicleName # <<>>
         THEN "Vehicle " \o Str(cleanName(event.VehicleName)) \o " was destroyed by "
              \o Str(event.Cause)
         ELSE "Vehicle was destroyed by " \o Str(event.Cause)
    ELSE IF event.Type = EventPlayerDeath
    THEN IF event.Weapon # <<>> /\ event.Weapon # Unknown
         THEN "You were killed by: " \o Str(event.Cause) \o " using " \o Str(event.Weapon)
         ELSE "You died by " \o Str(event.Cause)
    ELSE IF event.Type = EventActorState
    THEN IF event.Cause = CorpseCause
         THEN "You turned to a corpse"
         ELSE "You " \o Str(event.Cause)
    ELSE "RawLine"  \* default: the raw line itself; no event of the engine has another type

\* Mutant of OldEvents: every buffered event is handed to the groups.
OldEventsAll(pending, currentTime) == pending

\* The events of a sequence that satisfy / do not satisfy IsOld.
OldEvents(pending, currentTime) ==
    SelectSeq(pending, LAMBDA e : IsOld(currentTime, e))

\* Mutant of RemainingEvents: the flushed events stay in the buffer.
RemainingEventsKeepAll(pending, currentTime) == pending

RemainingEvents(pending, currentTime) ==
    SelectSeq(pending, LAMBDA e : ~IsOld(currentTime, e))

\* playerEvents[name] of FlushOldEvents: the old events of one player, in
\* buffer order.
GroupOf(old, name) == SelectSeq(old, LAMBDA e : e.PlayerName = name)

\* Mutant of GroupMessages: without a summary only the first event of the
\* group is rendered.
GroupMessagesFirstOnly(events) ==
    IF createMissionSummary(events) # ""
    THEN <<createMissionSummary(events)>>
    ELSE <<CreateIndividualEventMessage(SortEvents(events)[1])>>

\* The messages FlushOldEvents appends for one group: its summary, or one
\* message per event of the slice that createMissionSummary has just sorted
\* in place.
GroupMessages(events) ==
    IF createMissionSummary(events) # ""
    THEN <<createMissionSummary(events)>>
    ELSE [k \in DOMAIN events |-> CreateIndividualEventMessage(SortEvents(events)[k])]

\* The messages of the groups taken in the order `order` (Go ranges over the
\* playerEvents map in an unspecified order).
RECURSIVE MessagesInOrder(_, _)
MessagesInOrder(old, order) ==
    IF order = <<>> THEN <<>>
    ELSE GroupMessages(GroupOf(old, Head(order))) \o MessagesInOrder(old, Tail(order))

\* The orders in which the keys of playerEvents can be ranged over.
RECURSIVE Orders(_)
Orders(names) ==
    IF names = {} THEN {<<>>}
    ELSE UNION {{<<n>> \o o : o \in Orders(names \ {n})} : n \in names}

\* Mutant of FlushOldEvents: a call takes nothing out of the buffer.
FlushOldEventsNever(pending, currentTime, order) ==
    [messages |-> <<>>, remaining |-> pending]

\* FlushOldEvents: the messages returned and the buffer left.
FlushOldEvents(pending, currentTime, order) ==
    [messages |-> MessagesInOrder(OldEvents(pending, currentTime), order),
     remaining |-> RemainingEvents(pending, currentTime)]

\* ProcessEventsForPlayer: the events of playerName inside the time window
\* are taken out of the buffer and createMissionSummary of them is returned
\* ("" when there is none of them, or nothing to combine).
RelatedEvents(pending, playerName, currentTime) ==
    SelectSeq(pending, LAMBDA e : e.PlayerName = playerName
                                  /\ currentTime - e.Timestamp <= TimeWindow)

ProcessEventsForPlayer(pending, playerName, currentTime) ==
    [ret |-> IF RelatedEvents(pending, playerName, currentTime) # <<>>
             THEN createMissionSummary(RelatedEvents(pending, playerName, currentTime))
             ELSE "",
     remaining |-> SelectSeq(pending,
                             LAMBDA e : ~(e.PlayerName = playerName
                                          /\ currentTime - e.Timestamp <= TimeWindow))]

\* ---------------------------------------------------------------- processor
VARIABLES
    PlayerName,           \* Processor.PlayerName (<<>>: not resolved)
    Stats,                \* Processor.Stats, the all-time record in memory
    SessionStats,         \* Processor.SessionStats
    LastRawLogLine,       \* Processor.LastRawLogLine
    PendingEvents,        \* EventAggregator.PendingEvents
    files,                \* the <player>_stats.json files: player -> content
    currentSessionStats,  \* stats.currentSessionStats: player -> owner of the maps
    out,                  \* the AppendOutput calls, in order, of the last handler call
                          \* (a DetectPlayerName that returns without a match makes
                          \* none; it leaves this record as it is)
    watermark,            \* logTime of the last ProcessLogLine call that went past
                          \* the identity test
    flushLog,             \* history: one record per FlushOldEvents call that found
                          \* old events: the call, its currentTime, the old events
                          \* and the messages it returned
    nextId,               \* number of events enqueued so far
    nlines,               \* number of ProcessLogLine calls so far
    op,                   \* the calls of package stats made from outside the engine:
                          \* the number of ResetCurrentSession calls (sess), the
                          \* number of log conversions (convs) and the SessionStats
                          \* of the processor of the last one (conv), and for
                          \* the last ResetAllTime call of the UI: how many
                          \* were made, its player argument and the error returned;
                          \* `at` holds Processor.Stats as it was at the last such
                          \* call that emptied the record of the engine's identity
    rt,                   \* a Save followed by a Load of the same player: the
                          \* record saved and the record loaded; or the last
                          \* ProcessEventsForPlayer call: its arguments, the
                          \* events it took and the string it returned
    watch,                \* WatchLogFile: the log file, the shared read offset and
                          \* file position, and where its goroutines stand
    notifications,        \* logHandlerAdapter.notifications: the stack of overlay
                          \* notifications, newest first, each named by its number
    popups                \* the notifications created so far, by number: the
                          \* message, whether the pop-up is shown, and the timer
                          \* ("nil", "armed", "stopped", "queued" once it has
                          \* expired and handed its function to the UI thread,
                          \* "done" once that function has run)

vars == <<PlayerName, Stats, SessionStats, LastRawLogLine, PendingEvents, files,
          currentSessionStats, out, watermark, flushLog, nextId, nlines,
          op, rt, watch, notifications, popups>>

\* No call of package stats by the UI yet.
NoOp == [n |-> 0, player |-> <<>>, err |-> "", at |-> <<>>, sess |-> 0, convs |-> 0,
         conv |-> New]
\* No Save/Load pair under way.
NoRoundTrip == [pc |-> "none", p |-> <<>>, s |-> New, got |-> New]
\* WatchLogFile not started.
NoWatch == [pc |-> "none"]

\* The stats files that may exist when the engine starts.
InitialFiles ==
    { EmptyMap,
      (Ann :> [valid |-> TRUE,
               s |-> Encode([New EXCEPT !.Kills = (Bob :> 2),
                                        !.Deaths = (SuicideKey :> 1)])]) }

\* processor.New, and the stats files found at start.
EngineInit ==
    /\ PlayerName = <<>>
    /\ Stats = New
    /\ SessionStats = New
    /\ LastRawLogLine = Blank
    /\ PendingEvents = <<>>
    /\ files \in InitialFiles
    /\ currentSessionStats = EmptyMap
    /\ out = <<>>
    /\ watermark = 0
    /\ flushLog = <<>>
    /\ nextId = 0
    /\ nlines = 0

Init ==
    /\ EngineInit
    /\ op = NoOp
    /\ notifications = <<>>
    /\ popups = <<>>
    /\ rt = NoRoundTrip
    /\ watch = NoWatch

\* One AppendOutput call: the message and the optional logTime argument.
Output(msg, logTime) == [line |-> msg, logTime |-> logTime]

\* core.AppendOutput as the UI installs it: what AppendOutputWithRaw receives
\* for the call o, made while Processor.LastRawLogLine is `last` (the call's
\* logTime becomes a prefix of the text).
AppendOutputWithRaw(o, last) == [line |-> o.line, logTime |-> o.logTime, raw |-> last]

\* The name DetectPlayerName extracts from a line with each grammar (<<>>:
\* the grammar does not match), and whether the grammar assigns PlayerName.
NicknameMatch(line) == line.nickname # <<>>
PlayerBrMatch(line) == line.playerBr # <<>>
LegacyMatch(line) == line.character /\ line.nameNext # <<>>

\* Mutant of Detects: the guard on an already resolved identity is missing.
DetectsAlways(name, line) ==
    NicknameMatch(line) \/ PlayerBrMatch(line) \/ LegacyMatch(line)

\* DetectPlayerName goes past its first test and one grammar matches.
Detects(name, line) ==
    /\ name = <<>>
    /\ NicknameMatch(line) \/ PlayerBrMatch(line) \/ LegacyMatch(line)

\* The name the first matching grammar yields.
DetectedName(line) ==
    IF NicknameMatch(line) THEN line.nickname
    ELSE IF PlayerBrMatch(line) THEN line.playerBr
    ELSE Trim(line.nameNext)

\* DetectPlayerName(line)
DetectPlayerName(line) ==
    /\ IF Detects(PlayerName, line)
       THEN /\ PlayerName' = DetectedName(line)
            /\ out' = << Output("Detected player name: " \o Str(DetectedName(line)),
                                IF ExtractLogTimestamp(line).found
                                THEN <<ExtractLogTimestamp(line).t>> ELSE <<>>) >>
            /\ Stats' = Load(files, DetectedName(line))
       ELSE UNCHANGED <<PlayerName, Stats, out>>
    /\ UNCHANGED <<SessionStats, LastRawLogLine, PendingEvents, files,
                   currentSessionStats, watermark, flushLog, nextId,
                   nlines>>

\* --- ProcessLogLine, as the steps it runs through.  A step maps the record
\* m of what the call has done so far (the processor's records, the files,
\* the registry, the buffer, the output, whether the call has returned, and
\* `owner`, the processor whose maps the call registers: "core" for the
\* engine of the UI).

\* Mutant of Record: the session counter is not incremented.
RecordAllTimeOnly(m, category, key, outcome) ==
    LET st == [m.Stats EXCEPT ![category] = Inc(@, key)]
    IN  [m EXCEPT !.Stats = st,
                  !.files = Save(m.files, PlayerName, st, outcome),
                  !.reg = UpdateCurrentSession(m.reg, PlayerName, m.owner)]

\* The four statements that record a fact: both counters, Save,
\* UpdateCurrentSession.
Record(m, category, key, outcome) ==
    LET st == [m.Stats EXCEPT ![category] = Inc(@, key)]
        ss == [m.SessionStats EXCEPT ![category] = Inc(@, key)]
    IN  [m EXCEPT !.Stats = st,
                  !.SessionStats = ss,
                  !.files = Save(m.files, PlayerName, st, outcome),
                  !.reg = UpdateCurrentSession(m.reg, PlayerName, m.owner)]

\* EventAggregator.AddEvent (the id numbers the events in enqueue order)
AddEvent(m, event) ==
    [m EXCEPT !.buf = Append(@, [event EXCEPT !.id = m.nextId]),
              !.nextId = @ + 1]

\* Mutant of Emit: the message is put in front of the output of the call.
EmitFirst(m, msg, logTime) == [m EXCEPT !.out = <<Output(msg, <<logTime>>)>> \o @]

Emit(m, msg, logTime) == [m EXCEPT !.out = Append(@, Output(msg, <<logTime>>))]

PendingEvent(type, logTime, vehicle, cause, weapon, line, details) ==
    [Type |-> type, Timestamp |-> logTime, PlayerName |-> PlayerName,
     VehicleName |-> vehicle, Cause |-> cause, Weapon |-> weapon,
     RawLine |-> line, Details |-> details, id |-> 0]

\* Vehicle destruction (the expression matched with all its groups).
\* Mutant of VehicleStep: the event is filed under the cause of the
\* destruction instead of the identity.
VehicleStepCauseAsPlayer(m, line, logTime) ==
    IF line.vehTrig /\ line.vehId # <<>>
    THEN AddEvent(m, [PendingEvent(EventVehicleDestruction, logTime, line.vehId,
                                   line.vehCause, line.vehWith, line,
                                   [destroyLevel |-> line.vehTo])
                        EXCEPT !.PlayerName = line.vehCause])
    ELSE m

VehicleStep(m, line, logTime) ==
    IF line.vehTrig /\ line.vehId # <<>>
    THEN AddEvent(m, PendingEvent(EventVehicleDestruction, logTime, line.vehId,
                                  line.vehCause, line.vehWith, line,
                                  [destroyLevel |-> line.vehTo]))
    ELSE m

\* The expressions of the kill block.
SuicideMatch(line) == line.victim = PlayerName /\ line.killer = PlayerName
DeathMatch(line) == line.victim = PlayerName /\ line.killer # <<>>
MethodMatch(line) ==
    IsWord(line.victim) /\ line.killer = PlayerName /\ line.using # <<>>
KillMatch(line) == IsWord(line.victim) /\ line.killer = PlayerName

\* Mutant of KillStep: a suicide is also counted as a kill of oneself.
KillStepSuicideAsKill(m, line, logTime, outcome) ==
    IF ~line.killTrig THEN m
    ELSE IF SuicideMatch(line)
    THEN AddEvent(Record(Record(m, "Deaths", SuicideKey, outcome),
                         "Kills", line.victim, outcome),
                  PendingEvent(EventPlayerDeath, logTime, <<>>, SuicideLC, SuicideLC,
                               line, EmptyMap))
    ELSE IF DeathMatch(line)
    THEN AddEvent(Record(m, "Deaths", line.killer, outcome),
                  PendingEvent(EventPlayerDeath, logTime, <<>>, line.killer,
                               line.using, line, [damageType |-> line.dmgType]))
    ELSE IF MethodMatch(line)
    THEN [Emit(Record(m, "Kills", line.victim, outcome),
               "You killed: " \o Str(line.victim) \o " using "
               \o Str(cleanName(line.using)), logTime)
          EXCEPT !.ret = TRUE]
    ELSE IF KillMatch(line)
    THEN [Emit(Record(m, "Kills", line.victim, outcome),
               "You killed: " \o Str(line.victim), logTime)
          EXCEPT !.ret = TRUE]
    ELSE m

\* Player deaths and kills.
KillStep(m, line, logTime, outcome) ==
    IF ~line.killTrig THEN m
    ELSE IF SuicideMatch(line)
    THEN AddEvent(Record(m, "Deaths", SuicideKey, outcome),
                  PendingEvent(EventPlayerDeath, logTime, <<>>, SuicideLC, SuicideLC,
                               line, EmptyMap))
    ELSE IF DeathMatch(line)
    THEN AddEvent(Record(m, "Deaths", line.killer, outcome),
                  PendingEvent(EventPlayerDeath, logTime, <<>>, line.killer,
                               line.using, line, [damageType |-> line.dmgType]))
    ELSE IF MethodMatch(line)
    THEN [Emit(Record(m, "Kills", line.victim, outcome),
               "You killed: " \o Str(line.victim) \o " using "
               \o Str(cleanName(line.using)), logTime)
          EXCEPT !.ret = TRUE]
    ELSE IF KillMatch(line)
    THEN [Emit(Record(m, "Kills", line.victim, outcome),
               "You killed: " \o Str(line.victim), logTime)
          EXCEPT !.ret = TRUE]
    ELSE m

\* Mutant of CorpseStep: the name after `Player '` is not compared with the
\* identity.
CorpseStepAnyPlayer(m, line, logTime) ==
    IF /\ ~m.ret
       /\ line.corpseWord \/ line.ctlState
       /\ line.playerQ # <<>>
    THEN AddEvent(m, PendingEvent(EventActorState, logTime, <<>>, CorpseCause, <<>>,
                                  line, EmptyMap))
    ELSE m

\* Actor state changes (corpse).
CorpseStep(m, line, logTime) ==
    IF /\ ~m.ret
       /\ line.corpseWord \/ line.ctlState
       /\ line.playerQ # <<>>
       /\ line.playerQ = PlayerName
    THEN AddEvent(m, PendingEvent(EventActorState, logTime, <<>>, CorpseCause, <<>>,
                                  line, EmptyMap))
    ELSE m

\* Mutant of IncapStep: the incapacitation is handed to the aggregator.
IncapStepBuffered(m, line, logTime, outcome) ==
    IF /\ ~m.ret
       /\ line.incapTrig
       /\ WordPrefix(line.incapNick) # <<>>
       /\ WordPrefix(line.incapNick) # PlayerName
    THEN AddEvent(Record(m, "Incaps", WordPrefix(line.incapNick), outcome),
                  PendingEvent(EventActorState, logTime, <<>>,
                               WordPrefix(line.incapNick), <<>>, line, EmptyMap))
    ELSE m

\* Mutant of IncapStep: an incapacitation of the observed player counts too.
IncapStepSelf(m, line, logTime, outcome) ==
    IF /\ ~m.ret
       /\ line.incapTrig
       /\ WordPrefix(line.incapNick) # <<>>
    THEN [Emit(Record(m, "Incaps", WordPrefix(line.incapNick), outcome),
               "You incapacitated: " \o Str(WordPrefix(line.incapNick)), logTime)
          EXCEPT !.ret = TRUE]
    ELSE m

\* Incapacitations.
IncapStep(m, line, logTime, outcome) ==
    IF /\ ~m.ret
       /\ line.incapTrig
       /\ WordPrefix(line.incapNick) # <<>>
       /\ WordPrefix(line.incapNick) # PlayerName
    THEN [Emit(Record(m, "Incaps", WordPrefix(line.incapNick), outcome),
               "You incapacitated: " \o Str(WordPrefix(line.incapNick)), logTime)
          EXCEPT !.ret = TRUE]
    ELSE m

\* Mutant of LogTime: the wall clock is used for every line.
LogTimeWallClock(line, now) == now

\* The time ProcessLogLine works with: the line's timestamp, else time.Now().
LogTime(line, now) ==
    IF ExtractLogTimestamp(line).found THEN ExtractLogTimestamp(line).t ELSE now

\* The call after its flush: the flushed messages are delivered first.
AfterFlush(line, logTime, order) ==
    LET f == FlushOldEvents(PendingEvents, logTime, order)
    IN  [Stats |-> Stats, SessionStats |-> SessionStats, files |-> files,
         reg |-> currentSessionStats, buf |-> f.remaining,
         out |-> [k \in DOMAIN f.messages |-> Output(f.messages[k], <<logTime>>)],
         oldMessages |-> f.messages, nextId |-> nextId, ret |-> FALSE,
         owner |-> "core"]

\* The call at its end.
Processed(line, logTime, outcome, order) ==
    IncapStep(
      CorpseStep(
        KillStep(
          VehicleStep(AfterFlush(line, logTime, order), line, logTime),
          line, logTime, outcome),
        line, logTime),
      line, logTime, outcome)

\* Mutant of Unresolved: the early return on an empty identity is missing.
UnresolvedNever(name) == FALSE

\* The test `p.PlayerName == ""` after which ProcessLogLine returns at once.
Unresolved(name) == name = <<>>

\* ProcessLogLine(line); `now` is the wall clock and `order` the order in
\* which the flush ranges over its groups; its Save calls end in any of the
\* SaveOutcomes.  The actions bound the number of calls.
ProcessLogLine(line, now, order) ==
    /\ nlines' = nlines + 1
    /\ LastRawLogLine' = line
    /\ UNCHANGED PlayerName
    /\ IF Unresolved(PlayerName)
       THEN /\ out' = <<>>
            /\ UNCHANGED <<Stats, SessionStats, PendingEvents, files,
                           currentSessionStats, watermark, flushLog, nextId>>
       ELSE \E m \in {Processed(line, LogTime(line, now), outcome, order) :
                        outcome \in SaveOutcomes} :
            \E old \in {OldEvents(PendingEvents, LogTime(line, now))} :
                /\ Stats' = m.Stats
                /\ SessionStats' = m.SessionStats
                /\ files' = m.files
                /\ currentSessionStats' = m.reg
                /\ PendingEvents' = m.buf
                /\ out' = m.out
                /\ nextId' = m.nextId
                /\ watermark' = LogTime(line, now)
                /\ flushLog' = IF old = <<>> THEN flushLog
                               ELSE Append(flushLog,
                                           [call |-> nlines + 1,
                                            currentTime |-> LogTime(line, now),
                                            events |-> old,
                                            messages |-> m.oldMessages])

\* The players that have events among the old ones of a flush at logTime.
OldPlayers(logTime) ==
    {e.PlayerName : e \in Range(OldEvents(PendingEvents, logTime))}

\* The lines that differ for DetectPlayerName: those with a fragment of an
\* identity grammar, and one line without any.
IdentityLines ==
    {l \in Lines : l.nickname # <<>> \/ l.playerBr # <<>> \/ l.character} \cup {Blank}

Detect ==
    /\ \E line \in IdentityLines : DetectPlayerName(line)
    /\ UNCHANGED <<op, rt, watch, notifications, popups>>

Process ==
    /\ nlines < MaxLines
    /\ \E line \in Lines :
         \E now \in (IF line.stamp = <<>> THEN Clock ELSE {0}) :
           \E order \in Orders(OldPlayers(LogTime(line, now))) :
             ProcessLogLine(line, now, order)
    /\ UNCHANGED <<op, rt, watch, notifications, popups>>

Next == Detect \/ Process

Spec == Init /\ [][Next]_vars

\* ------------------------------------------------- the engine and the resets
\* Number of reset calls explored.
MaxResets == 2

\* The lines that record a fact for identity Ann or Eve: a kill, a death, and
\* an incapacitation.
RecordedLines ==
    {At(KillLine(Bob, Ann, <<>>, <<>>), 102), At(KillLine(Ann, Bob, Crash, <<>>), 102),
     At(IncapLine(Bob), 102),
     At([IncapLine(Bob) EXCEPT !.killTrig = TRUE, !.victim = Eve, !.killer = Ann], 102)}

\* ProcessLogLine on a line that records a fact.
ProcessRecorded ==
    /\ nlines < MaxLines
    /\ \E line \in RecordedLines :
         \E order \in Orders(OldPlayers(LogTime(line, 0))) :
           ProcessLogLine(line, 0, order)
    /\ UNCHANGED <<op, rt, watch, notifications, popups>>

\* The player names the reset button can pass: the text of the player label.
ResetPlayers == {<<>>, Ann, Eve}

\* The reset button of the UI: stats.ResetAllTime(playerLabel.Text), its
\* error dropped.
ResetAllTimeCall ==
    /\ op.n < MaxResets
    /\ \E player \in ResetPlayers, outcome \in SaveOutcomes :
         /\ files' = ResetAllTime(files, player, outcome)
         /\ op' = [n |-> op.n + 1, player |-> player,
                   err |-> SaveError(player, outcome),
                   at |-> IF player # <<>> /\ player = PlayerName /\ outcome = "ok"
                          THEN <<Stats>> ELSE op.at,
                   sess |-> op.sess, convs |-> op.convs, conv |-> op.conv]
    /\ UNCHANGED <<PlayerName, Stats, SessionStats, LastRawLogLine, PendingEvents,
                   currentSessionStats, out, watermark, flushLog, nextId, nlines,
                   rt, watch, notifications, popups>>

\* Number of session resets explored.
MaxSessionResets == 1

\* A call of stats.ResetCurrentSession().
ResetCurrentSessionCall ==
    /\ op.sess < MaxSessionResets
    /\ currentSessionStats' = ResetCurrentSession
    /\ op' = [op EXCEPT !.sess = @ + 1]
    /\ UNCHANGED <<PlayerName, Stats, SessionStats, LastRawLogLine, PendingEvents,
                   files, out, watermark, flushLog, nextId, nlines, rt, watch, notifications, popups>>

NextReset == Detect \/ ProcessRecorded \/ ResetAllTimeCall \/ ResetCurrentSessionCall

SpecReset == Init /\ [][NextReset]_vars

\* ------------------------------------------------- Save followed by Load
\* Keys with a byte that is no valid UTF-8 (a Latin-1 name in the log), and a
\* key that holds U+FFFD itself.
Jue == <<"J", "<FC>">>
Jae == <<"J", "<E4>">>
Jrr == <<"J", "<FFFD>">>

\* The mappings and records explored.
RoundTripMaps ==
    {EmptyMap, (Bob :> 2), (Bob :> 1) @@ (SuicideKey :> 3), (Jue :> 1),
     (Jae :> 1) @@ (Jue :> 2), (Jrr :> 1) @@ (Bob :> 1)}
RoundTripRecords ==
    [Kills : RoundTripMaps, Deaths : RoundTripMaps,
     Incaps : {EmptyMap, (Bob :> 1)}, Appearances : {EmptyMap}]

InitRoundTrip ==
    /\ EngineInit
    /\ op = NoOp
    /\ notifications = <<>>
    /\ popups = <<>>
    /\ watch = NoWatch
    /\ rt \in [pc : {"start"}, p : {Ann, Eve}, s : RoundTripRecords, got : {New}]

\* stats.Save(p, s), without failure.
RoundTripSave ==
    /\ rt.pc = "start"
    /\ files' = Save(files, rt.p, rt.s, "ok")
    /\ rt' = [rt EXCEPT !.pc = "saved"]
    /\ UNCHANGED <<PlayerName, Stats, SessionStats, LastRawLogLine, PendingEvents,
                   currentSessionStats, out, watermark, flushLog, nextId, nlines,
                   op, watch, notifications, popups>>

\* stats.Load(p)
RoundTripLoad ==
    /\ rt.pc = "saved"
    /\ rt' = [rt EXCEPT !.pc = "loaded", !.got = Load(files, rt.p)]
    /\ UNCHANGED <<PlayerName, Stats, SessionStats, LastRawLogLine, PendingEvents,
                   files, currentSessionStats, out, watermark, flushLog, nextId,
                   nlines, op, watch, notifications, popups>>

NextRoundTrip == RoundTripSave \/ RoundTripLoad

SpecRoundTrip == InitRoundTrip /\ [][NextRoundTrip]_vars

\* ------------------------------------------------------------ WatchLogFile
\* Number of lines the game appends to the log after WatchLogFile opened it.
MaxAppend == 2
\* Number of times the log is truncated while it is watched.
MaxTruncate == 1

\* A kill line of Ann that also carries Player[Ann], and a kill line without
\* an identity fragment.
KillWithIdentity == [At(KillLine(Bob, Ann, <<>>, <<>>), 102) EXCEPT !.playerBr = Ann]
WatchLines == {KillWithIdentity, At(KillLine(Bob, Ann, <<>>, <<>>), 102)}

\* The log file when WatchLogFile opens it.
InitialLogs == {<<>>, <<At(NicknameLine(Ann), 100), At(KillLine(Bob, Ann, <<>>, <<>>), 102)>>}

\* The two goroutines that read the file after the initial scan: the polling
\* goroutine and the fsnotify event loop.
Readers == {"poll", "loop"}

\* No closure is running on the UI thread.
NoClosure == [by |-> "", idx |-> 0, resolved |-> FALSE]

\* watch: pc       "scan" during the initial scan, "run" afterwards
\*        file     the lines written to the log file so far
\*        base     how many of them the last truncation removed: the file
\*                 holds the lines after the first `base`, its size is
\*                 Len(file) - base
\*        truncs   the number of truncations so far
\*        pos      the position of the open file (shared by all readers)
\*        offset   the variable offset (shared by both goroutines)
\*        events   fsnotify Write events not yet received
\*        r        for each reader: where it stands, and the lines (by number)
\*                 its scanner has read and not yet handed over
\*        ui       the closure fyne.Do is running: whose it is, its line, and
\*                 whether its DetectPlayerName call resolved the identity
\*        handed   the lines handed to the engine so far, by number
\*        start    the number of lines the initial scan went through
\*        found    the number of lines the file had when it was opened
InitWatch ==
    /\ EngineInit
    /\ op = NoOp
    /\ notifications = <<>>
    /\ popups = <<>>
    /\ rt = NoRoundTrip
    /\ watch \in {[pc |-> "scan", file |-> f, base |-> 0, truncs |-> 0,
                    pos |-> 0, offset |-> 0, events |-> 0,
                    r |-> [g \in Readers |-> [pc |-> "wait", lines |-> <<>>]],
                    ui |-> NoClosure, handed |-> <<>>, start |-> 0,
                    found |-> Len(f)] :
                   f \in InitialLogs}

EngineUnchanged ==
    UNCHANGED <<PlayerName, Stats, SessionStats, LastRawLogLine, PendingEvents, files,
                currentSessionStats, out, watermark, flushLog, nextId, nlines>>

\* The game appends a line; fsnotify queues a Write event.
AppendLine ==
    /\ Len(watch.file) - watch.found < MaxAppend
    /\ \E l \in WatchLines :
         watch' = [watch EXCEPT !.file = Append(@, l), !.events = @ + 1]
    /\ EngineUnchanged
    /\ UNCHANGED <<op, rt, notifications, popups>>

\* The log is truncated to length 0 (the game starts a new log in the same
\* file); fsnotify queues a Write event.  The position of the open file stays.
Truncate ==
    /\ watch.pc = "run"
    /\ watch.truncs < MaxTruncate
    /\ Len(watch.file) > watch.base
    /\ watch' = [watch EXCEPT !.base = Len(watch.file), !.truncs = @ + 1,
                              !.events = @ + 1]
    /\ EngineUnchanged
    /\ UNCHANGED <<op, rt, notifications, popups>>

\* One round of the initial scan: the next line goes to DetectPlayerName.
ScanLine ==
    /\ watch.pc = "scan"
    /\ watch.pos < Len(watch.file)
    /\ DetectPlayerName(watch.file[watch.pos + 1])
    /\ watch' = [watch EXCEPT !.pos = @ + 1]
    /\ UNCHANGED <<op, rt, notifications, popups>>

\* Mutant of StartTail: reading starts again at the beginning of the file.
StartTailFromStart ==
    /\ watch.pc = "scan"
    /\ watch.pos = Len(watch.file)
    /\ watch' = [watch EXCEPT !.pc = "run", !.offset = 0, !.start = watch.pos]
    /\ EngineUnchanged
    /\ UNCHANGED <<op, rt, notifications, popups>>

\* The initial scan is at the end of the file: offset becomes the position
\* of the file and the polling goroutine is started.
StartTail ==
    /\ watch.pc = "scan"
    /\ watch.pos = Len(watch.file)
    /\ watch' = [watch EXCEPT !.pc = "run", !.offset = watch.pos,
                              !.start = watch.pos]
    /\ EngineUnchanged
    /\ UNCHANGED <<op, rt, notifications, popups>>

\* The polling goroutine wakes up and finds info.Size() > offset.
PollStat ==
    /\ watch.pc = "run"
    /\ watch.r["poll"].pc = "wait"
    /\ Len(watch.file) - watch.base > watch.offset
    /\ watch' = [watch EXCEPT !.r["poll"].pc = "seek"]
    /\ EngineUnchanged
    /\ UNCHANGED <<op, rt, notifications, popups>>

\* The event loop receives a Write event for the file; offset is set to 0
\* when the file is shorter than offset.
LoopEvent ==
    /\ watch.pc = "run"
    /\ watch.r["loop"].pc = "wait"
    /\ watch.events > 0
    /\ watch' = [watch EXCEPT !.events = @ - 1,
                              !.offset = IF Len(watch.file) - watch.base < @
                                         THEN 0 ELSE @,
                              !.r["loop"].pc = "seek"]
    /\ EngineUnchanged
    /\ UNCHANGED <<op, rt, notifications, popups>>

\* file.Seek(offset, io.SeekStart)
SeekOffset(g) ==
    /\ watch.r[g].pc = "seek"
    /\ watch' = [watch EXCEPT !.pos = watch.offset, !.r[g].pc = "read"]
    /\ EngineUnchanged
    /\ UNCHANGED <<op, rt, notifications, popups>>

\* scanner2.Scan() with nothing buffered: it reads the file from its
\* position to the end; with nothing read the loop ends.
ScanRead(g) ==
    /\ watch.r[g].pc = "read"
    /\ watch' = IF watch.pos < Len(watch.file) - watch.base
                THEN [watch EXCEPT !.r[g].lines =
                                      [k \in 1..(Len(watch.file) - watch.base
                                                 - watch.pos) |->
                                         watch.base + watch.pos + k],
                                   !.pos = Len(watch.file) - watch.base,
                                   !.r[g].pc = "deliver"]
                ELSE [watch EXCEPT !.r[g].pc = "tell"]
    /\ EngineUnchanged
    /\ UNCHANGED <<op, rt, notifications, popups>>

\* fyne.Do runs the closure of the next line: first proc.DetectPlayerName.
DoDetect(g) ==
    /\ watch.r[g].pc = "deliver"
    /\ watch.ui.by = ""
    /\ LET idx == Head(watch.r[g].lines) IN
         /\ DetectPlayerName(watch.file[idx])
         /\ watch' = [watch EXCEPT
                        !.ui = [by |-> g, idx |-> idx,
                                resolved |-> Detects(PlayerName, watch.file[idx])],
                        !.handed = Append(@, idx)]
    /\ UNCHANGED <<op, rt, notifications, popups>>

\* The closure goes on with proc.ProcessLogLine on the same line and ends.
DoProcess(g) ==
    /\ watch.ui.by = g
    /\ nlines < MaxLines
    /\ \E now \in (IF watch.file[watch.ui.idx].stamp = <<>> THEN Clock ELSE {0}) :
         \E order \in Orders(OldPlayers(LogTime(watch.file[watch.ui.idx], now))) :
           ProcessLogLine(watch.file[watch.ui.idx], now, order)
    /\ watch' = [watch EXCEPT !.ui = NoClosure,
                              !.r[g].lines = Tail(@),
                              !.r[g].pc = IF Len(watch.r[g].lines) = 1
                                          THEN "read" ELSE "deliver"]
    /\ UNCHANGED <<op, rt, notifications, popups>>

\* offset, _ = file.Seek(0, io.SeekCurrent)
TellOffset(g) ==
    /\ watch.r[g].pc = "tell"
    /\ watch' = [watch EXCEPT !.offset = watch.pos, !.r[g].pc = "wait"]
    /\ EngineUnchanged
    /\ UNCHANGED <<op, rt, notifications, popups>>

NextWatch ==
    \/ AppendLine
    \/ Truncate
    \/ ScanLine
    \/ StartTail
    \/ PollStat
    \/ LoopEvent
    \/ \E g \in Readers : SeekOffset(g)
    \/ \E g \in Readers : ScanRead(g)
    \/ \E g \in Readers : DoDetect(g)
    \/ \E g \in Readers : DoProcess(g)
    \/ \E g \in Readers : TellOffset(g)

SpecWatch == InitWatch /\ [][NextWatch]_vars

\* ------------------------------------------------- convertLogToHistory
\* Number of conversions explored.
MaxConvert == 1

\* The logs converted: an identity line of Ann followed by a line without an
\* event, by a kill of Ann, or by a kill and a death of Ann.
ConvertLogs ==
    {<<At(NicknameLine(Ann), 100), At(Blank, 105)>>,
     <<At(NicknameLine(Ann), 100), At(KillLine(Bob, Ann, <<>>, <<>>), 102)>>,
     <<At(NicknameLine(Ann), 100), At(KillLine(Bob, Ann, <<>>, <<>>), 102),
       At(KillLine(Ann, Bob, Crash, <<>>), 102)>>}

\* The player name convertLogToHistory finds in the log: that of the first
\* line with an identity fragment ("Unknown" without one).
RECURSIVE ConvertName(_)
ConvertName(log) ==
    IF log = <<>> THEN <<"U","n","k","n","o","w","n">>
    ELSE IF NicknameMatch(Head(log)) THEN Head(log).nickname
    ELSE IF PlayerBrMatch(Head(log)) THEN Head(log).playerBr
    ELSE IF LegacyMatch(Head(log)) THEN Trim(Head(log).nameNext)
    ELSE ConvertName(Tail(log))

\* The loop of convertLogToHistory from line k on: proc.Stats is a blank
\* record for each ProcessLogLine call of the temporary processor, whose
\* SessionStats and buffer go from line to line; c holds them together with
\* the files and the registry.  The processor's name is PlayerName here (see
\* ConvertLog).
RECURSIVE ConvertFrom(_, _, _, _)
ConvertFrom(log, k, c, outcome) ==
    IF k > Len(log) THEN c
    ELSE LET line == log[k]
             logTime == LogTime(line, 0)
             m == IncapStep(
                    CorpseStep(
                      KillStep(
                        VehicleStep(
                          [Stats |-> New, SessionStats |-> c.SessionStats,
                           files |-> c.files, reg |-> c.reg,
                           buf |-> RemainingEvents(c.buf, logTime), out |-> <<>>,
                           oldMessages |-> <<>>, nextId |-> 0, ret |-> FALSE,
                           owner |-> "conv"],
                          line, logTime),
                        line, logTime, outcome),
                      line, logTime),
                    line, logTime, outcome)
         IN  ConvertFrom(log, k + 1,
                         [SessionStats |-> m.SessionStats, files |-> m.files,
                          reg |-> m.reg, buf |-> m.buf], outcome)

\* convertLogToHistory on a log of the player the engine observes (the
\* temporary processor then has the engine's PlayerName); it runs on the UI
\* thread, between two closures of the watcher.
ConvertLog ==
    /\ op.convs < MaxConvert
    /\ PlayerName # <<>>
    /\ \E log \in ConvertLogs, outcome \in SaveOutcomes :
         /\ ConvertName(log) = PlayerName
         /\ LET c == ConvertFrom(log, 1,
                                 [SessionStats |-> New, files |-> files,
                                  reg |-> currentSessionStats, buf |-> <<>>],
                                 outcome)
            IN  /\ files' = c.files
                /\ currentSessionStats' = c.reg
                /\ op' = [op EXCEPT !.convs = @ + 1, !.conv = c.SessionStats]
    /\ UNCHANGED <<PlayerName, Stats, SessionStats, LastRawLogLine, PendingEvents,
                   out, watermark, flushLog, nextId, nlines, rt, watch, notifications, popups>>

NextConvert == Detect \/ ProcessRecorded \/ ConvertLog

SpecConvert == Init /\ [][NextConvert]_vars

\* ------------------------------------------------- Load of a stored record
\* The records a stored file was written from.
StoredRecords == {New, [New EXCEPT !.Kills = (Bob :> 2), !.Deaths = (SuicideKey :> 1)]}

\* The files that may be found for Ann: none, a file that does not decode,
\* and JSON objects that hold any of the four members of a record.
StoredFiles ==
    {EmptyMap}
    \cup {(Ann :> [valid |-> v, s |-> [c \in D |-> Encode(r)[c]]]) :
            v \in BOOLEAN, r \in StoredRecords, D \in SUBSET StatsFields}

\* processor.New and the file found; `rt` follows one Load(p) and the
\* recording of one fact in the record it returned.
InitLoad ==
    /\ PlayerName = <<>>
    /\ Stats = New
    /\ SessionStats = New
    /\ LastRawLogLine = Blank
    /\ PendingEvents = <<>>
    /\ files \in StoredFiles
    /\ currentSessionStats = EmptyMap
    /\ out = <<>>
    /\ watermark = 0
    /\ flushLog = <<>>
    /\ nextId = 0
    /\ nlines = 0
    /\ op = NoOp
    /\ notifications = <<>>
    /\ popups = <<>>
    /\ watch = NoWatch
    /\ rt \in [pc : {"stored"}, p : {<<>>, Ann, Eve}, s : {New}, got : {New}]

\* p.Stats = stats.Load(p.PlayerName)
LoadStored ==
    /\ rt.pc = "stored"
    /\ rt' = [rt EXCEPT !.pc = "loaded", !.got = Load(files, rt.p)]
    /\ UNCHANGED <<PlayerName, Stats, SessionStats, LastRawLogLine, PendingEvents,
                   files, currentSessionStats, out, watermark, flushLog, nextId,
                   nlines, op, watch, notifications, popups>>

\* The statement that records a fact in the loaded record, p.Stats.<field>[key]++:
\* the assignment to an entry of a nil map panics.
RecordLoaded ==
    /\ rt.pc = "loaded"
    /\ \E c \in {"Kills", "Deaths", "Incaps"} :
         rt' = IF rt.got[c] = NilMap
               THEN [rt EXCEPT !.pc = "panic"]
               ELSE [rt EXCEPT !.pc = "recorded", !.got[c] = Inc(@, Bob)]
    /\ UNCHANGED <<PlayerName, Stats, SessionStats, LastRawLogLine, PendingEvents,
                   files, currentSessionStats, out, watermark, flushLog, nextId,
                   nlines, op, watch, notifications, popups>>

NextLoad == LoadStored \/ RecordLoaded

SpecLoad == InitLoad /\ [][NextLoad]_vars

\* ------------------------------------------------- a burst of event lines
\* Number of ProcessLogLine calls of a burst.
MaxBurst == 4

\* The lines of a burst: vehicle destructions caused by a collision, a crash
\* and a player, corpse and control-state lines of two players, deaths with
\* weapon "Crash" and "Collision", and two later lines without any event.
BurstLines ==
    {At(VehicleLine(Ship, Collision, Gun), 100), At(VehicleLine(Ship, Crash, Gun), 100),
     At(VehicleLine(Ship, Bob, Gun), 102), At(CorpseLine(Ann), 102),
     At(CorpseLine(Bob), 102), At(ControlStateLine(Ann), 102),
     At(ControlStateLine(Bob), 102),
     At(KillLine(Ann, Bob, Crash, <<>>), 102),
     At(KillLine(Ann, Bob, Collision, <<>>), 102),
     At(Blank, 106), At(Blank, 108)}

\* ProcessLogLine on a line of the burst.
ProcessBurst ==
    /\ nlines < MaxBurst
    /\ \E line \in BurstLines :
         \E order \in Orders(OldPlayers(LogTime(line, 0))) :
           ProcessLogLine(line, 0, order)
    /\ UNCHANGED <<op, rt, watch, notifications, popups>>

NextBurst == Detect \/ ProcessBurst

SpecBurst == Init /\ [][NextBurst]_vars

\* ------------------------------------------ a summary requested by a caller
\* The times a caller passes as currentTime.
RequestTimes == {106}

\* A caller of the aggregator asks ProcessEventsForPlayer for the summary of
\* a player; rt keeps the call: its arguments, the events it took out of the
\* buffer and the string it returned.
RequestSummary ==
    /\ PlayerName # <<>>
    /\ \E playerName \in {Ann, Bob}, currentTime \in RequestTimes :
         LET r == ProcessEventsForPlayer(PendingEvents, playerName, currentTime)
         IN  /\ PendingEvents' = r.remaining
             /\ rt' = [pc |-> "summary", p |-> playerName, s |-> New, got |-> New,
                       currentTime |-> currentTime,
                       related |-> RelatedEvents(PendingEvents, playerName, currentTime),
                       ret |-> r.ret]
    /\ UNCHANGED <<PlayerName, Stats, SessionStats, LastRawLogLine, files,
                   currentSessionStats, out, watermark, flushLog, nextId, nlines,
                   op, watch, notifications, popups>>

NextRequest == Detect \/ ProcessBurst \/ RequestSummary

SpecRequest == Init /\ [][NextRequest]_vars

\* ------------------------------------------------ overlay notifications
\* Number of showPopup calls.
MaxPopups == 4

\* The messages AppendOutput hands to showPopup.
PopupMessages == {"Killed by Bob", "Bob was killed"}

\* Mutant of ShowPopup: the stack is never cut.
ShowPopupKeepAll ==
    /\ Len(popups) < MaxPopups
    /\ \E message \in PopupMessages :
         /\ notifications' = <<Len(popups) + 1>> \o notifications
         /\ popups' = Append(popups, [message |-> message, visible |-> TRUE,
                                      timer |-> "armed"])
    /\ UNCHANGED <<PlayerName, Stats, SessionStats, LastRawLogLine, PendingEvents,
                   files, currentSessionStats, out, watermark, flushLog, nextId,
                   nlines, op, rt, watch>>

\* showPopup: the new notification is put on top of the stack; beyond three
\* entries the fourth is hidden, its timer stopped (a timer that has already
\* expired is not stopped any more) and the stack cut to three; every entry
\* of the stack is shown; the timer of the new notification is started.
ShowPopup ==
    /\ Len(popups) < MaxPopups
    /\ \E message \in PopupMessages :
         LET n == Len(popups) + 1
             stack == <<n>> \o notifications
             created == Append(popups, [message |-> message, visible |-> FALSE,
                                        timer |-> "nil"])
             hidden == IF Len(stack) > 3
                       THEN [created EXCEPT
                               ![stack[4]].visible = FALSE,
                               ![stack[4]].timer = IF @ = "armed" THEN "stopped" ELSE @]
                       ELSE created
             kept == IF Len(stack) > 3 THEN SubSeq(stack, 1, 3) ELSE stack
             shown == [k \in DOMAIN hidden |->
                         IF k \in Range(kept)
                         THEN [hidden[k] EXCEPT !.visible = TRUE]
                         ELSE hidden[k]]
         IN  /\ notifications' = kept
             /\ popups' = [shown EXCEPT ![n].timer = "armed"]
    /\ UNCHANGED <<PlayerName, Stats, SessionStats, LastRawLogLine, PendingEvents,
                   files, currentSessionStats, out, watermark, flushLog, nextId,
                   nlines, op, rt, watch>>

\* The 3-second timer of notification n expires: its function starts in a
\* goroutine of its own and hands the hiding to the UI thread (fyne.Do).
TimerExpire(n) ==
    /\ n \in DOMAIN popups
    /\ popups[n].timer = "armed"
    /\ popups' = [popups EXCEPT ![n].timer = "queued"]
    /\ UNCHANGED <<PlayerName, Stats, SessionStats, LastRawLogLine, PendingEvents,
                   files, currentSessionStats, out, watermark, flushLog, nextId,
                   nlines, op, rt, watch, notifications>>

\* The function of the timer of notification n runs on the UI thread: the
\* pop-up is hidden and the notification taken out of the stack if it is in.
HideNotification(n) ==
    /\ n \in DOMAIN popups
    /\ popups[n].timer = "queued"
    /\ popups' = [popups EXCEPT ![n].visible = FALSE, ![n].timer = "done"]
    /\ notifications' = SelectSeq(notifications, LAMBDA x : x # n)
    /\ UNCHANGED <<PlayerName, Stats, SessionStats, LastRawLogLine, PendingEvents,
                   files, currentSessionStats, out, watermark, flushLog, nextId,
                   nlines, op, rt, watch>>

NextPopup ==
    \/ ShowPopup
    \/ \E n \in 1..MaxPopups : TimerExpire(n)
    \/ \E n \in 1..MaxPopups : HideNotification(n)

SpecPopup == Init /\ [][NextPopup]_vars

\* Every started timer expires after its three seconds, and the UI thread
\* runs every function handed to it.
SpecPopupFair ==
    /\ SpecPopup
    /\ \A n \in 1..MaxPopups : WF_vars(TimerExpire(n)) /\ WF_vars(HideNotification(n))

\* =================================================================== claims
\* The step is a ProcessLogLine call.
ProcessStep == nlines' = nlines + 1

\* Ids of the events in the buffer, and of the events flushed so far.
BufferIds == {PendingEvents[k].id : k \in DOMAIN PendingEvents}
FlushedIds ==
    UNION {{flushLog[i].events[k].id : k \in DOMAIN flushLog[i].events} :
           i \in DOMAIN flushLog}

\* Names that occur as keys of the counters.
Keys == {Ann, Eve, Bob, Zed, SuicideKey, <<"Z">>}
Categories == {"Kills", "Deaths", "Incaps", "Appearances"}

\* C1: once PlayerName is non-empty, no DetectPlayerName or ProcessLogLine
\* call changes it, whatever identity-bearing line is fed.
C1_IdentityNeverChanges == [][PlayerName # <<>> => PlayerName' = PlayerName]_vars

\* Identity Ann is resolved and a line with nickname="Eve" was fed afterwards.
C1_Witness == PlayerName = Ann /\ LastRawLogLine.nickname = Eve /\ nlines > 0

\* C2: while the identity is empty, a ProcessLogLine call leaves the buffer,
\* both records, the files and the registry as they are, flushes nothing and
\* emits no message.
C2_NothingBeforeIdentity ==
    [][(PlayerName = <<>> /\ ProcessStep) =>
         /\ UNCHANGED <<PendingEvents, Stats, SessionStats, files,
                        currentSessionStats, flushLog, nextId>>
         /\ out' = <<>>]_vars

\* An event line (vehicle, kill or incap) was processed with no identity.
C2_Witness ==
    /\ PlayerName = <<>>
    /\ nlines > 0
    /\ LastRawLogLine.vehTrig \/ LastRawLogLine.incapTrig \/ LastRawLogLine.killTrig

\* C3: a pending event is flushed exactly once: no event is in two flushes or
\* twice in one, a flushed event is never in the buffer again, no event that
\* the last flush judged old (more than 5 s before its watermark) is still
\* buffered, and every flush that took events returned messages for them.
C3_FlushedExactlyOnce ==
    /\ \A i, j \in DOMAIN flushLog :
         \A a \in DOMAIN flushLog[i].events, b \in DOMAIN flushLog[j].events :
           flushLog[i].events[a].id = flushLog[j].events[b].id => (i = j /\ a = b)
    /\ BufferIds \cap FlushedIds = {}
    /\ \A k \in DOMAIN PendingEvents :
         ~(watermark - PendingEvents[k].Timestamp > 5)
    /\ \A i \in DOMAIN flushLog :
         /\ flushLog[i].messages # <<>>
         /\ Len(flushLog[i].messages) <= Len(flushLog[i].events)

\* Two flushes took place and an event is still buffered.
C3_Witness == Len(flushLog) = 2 /\ PendingEvents # <<>>

\* C4: FlushOldEvents partitions the buffer exactly: every event it took was
\* more than 5 s older than its currentTime, every event left is at most 5 s
\* older than the watermark (or later than it), the events left keep their
\* relative (enqueue) order, and every event enqueued is either buffered or
\* was taken by a flush.
C4_ExactPartition ==
    /\ \A i \in DOMAIN flushLog :
         \A k \in DOMAIN flushLog[i].events :
           flushLog[i].currentTime - flushLog[i].events[k].Timestamp > 5
    /\ \A k \in DOMAIN PendingEvents : watermark - PendingEvents[k].Timestamp <= 5
    /\ \A a, b \in DOMAIN PendingEvents :
         a < b => PendingEvents[a].id < PendingEvents[b].id
    /\ BufferIds \cup FlushedIds = 0..(nextId - 1)

\* After a call with watermark w the buffer holds an event exactly 5 s older
\* than w and an event later than w, both enqueued by earlier calls.
C4_Witness ==
    /\ nlines = 3
    /\ nextId = 2
    /\ \E a, b \in DOMAIN PendingEvents :
         /\ watermark - PendingEvents[a].Timestamp = 5
         /\ PendingEvents[b].Timestamp > watermark

\* The events of the C5/C6 scenario.
IsCollisionVehicle(e) ==
    e.Type = EventVehicleDestruction /\ e.Cause = Collision /\ e.VehicleName = Ship
IsCrashDeath(e) ==
    e.Type = EventPlayerDeath /\ e.Weapon = Crash /\ e.Cause = Bob
    /\ e.PlayerName = PlayerName

\* C5: a flush at a line with timestamp >= 108 that takes the collision
\* destruction of vehicle G_X_7 enqueued at t = 100 and the crash death of the
\* identity enqueued next at t = 102 returns exactly one message, the
\* combined one with the cleaned vehicle name.
C5_CrashSummary ==
    \A i \in DOMAIN flushLog :
      (/\ flushLog[i].currentTime >= 108
       /\ \E a, b \in DOMAIN flushLog[i].events :
            /\ IsCollisionVehicle(flushLog[i].events[a])
            /\ flushLog[i].events[a].Timestamp = 100
            /\ IsCrashDeath(flushLog[i].events[b])
            /\ flushLog[i].events[b].Timestamp = 102
            /\ flushLog[i].events[b].id = flushLog[i].events[a].id + 1)
      => flushLog[i].messages =
           <<"Mission Event: " \o Str(PlayerName) \o " crashed their G X and died">>

\* The three lines of the scenario were processed one after the other.
C5_Witness ==
    /\ nlines = 3
    /\ nextId = 2
    /\ Len(flushLog) = 1
    /\ flushLog[1].call = 3
    /\ flushLog[1].currentTime >= 108
    /\ Len(flushLog[1].events) = 2
    /\ IsCollisionVehicle(flushLog[1].events[1])
    /\ flushLog[1].events[1].Timestamp = 100
    /\ IsCrashDeath(flushLog[1].events[2])
    /\ flushLog[1].events[2].Timestamp = 102
    /\ flushLog[1].messages = <<"Mission Event: Ann crashed their G X and died">>

\* C6: a collision vehicle destruction and a crash death of the identity
\* enqueued after it with a timestamp more than 5 s later are never taken by
\* the same flush: the destruction is flushed by an earlier call than the
\* death, and when they are the only two facts each flush returns exactly the
\* individual message of its fact (no combined message).
C6_SeparateMessages ==
    \A i, j \in DOMAIN flushLog :
      \A a \in DOMAIN flushLog[i].events, b \in DOMAIN flushLog[j].events :
        (/\ IsCollisionVehicle(flushLog[i].events[a])
         /\ IsCrashDeath(flushLog[j].events[b])
         /\ flushLog[i].events[a].id < flushLog[j].events[b].id
         /\ flushLog[j].events[b].Timestamp - flushLog[i].events[a].Timestamp > 5)
        => /\ i < j
           /\ flushLog[i].call < flushLog[j].call
           /\ nextId = 2 =>
                /\ flushLog[i].messages = <<"Vehicle G X was destroyed by Collision">>
                /\ flushLog[j].messages = <<"You were killed by: Bob using Crash">>

\* Both facts of the scenario were flushed, each by its own call.
C6_Witness ==
    /\ nextId = 2
    /\ Len(flushLog) = 2
    /\ IsCollisionVehicle(flushLog[1].events[1])
    /\ IsCrashDeath(flushLog[2].events[1])
    /\ flushLog[2].events[1].Timestamp - flushLog[1].events[1].Timestamp > 5
    /\ flushLog[1].messages = <<"Vehicle G X was destroyed by Collision">>
    /\ flushLog[2].messages = <<"You were killed by: Bob using Crash">>

\* The messages an incapacitation can produce.
IncapMessages == {"You incapacitated: " \o Str(n) : n \in Keys}

C8_AppearanceEmitted ==
    [][(ProcessStep /\ PlayerName # <<>>
        /\ LastRawLogLine'.nickname # <<>>
        /\ LastRawLogLine'.nickname # PlayerName) =>
         /\ \E k \in DOMAIN out' :
              out'[k].line = "Player appeared: " \o Str(LastRawLogLine'.nickname)
         /\ Get(Stats'.Appearances, LastRawLogLine'.nickname)
              = Get(Stats.Appearances, LastRawLogLine'.nickname) + 1
         /\ Get(SessionStats'.Appearances, LastRawLogLine'.nickname)
              = Get(SessionStats.Appearances, LastRawLogLine'.nickname) + 1]_vars

\* C9: processing a CActor::Kill line whose victim and killer are both the
\* identity increments Deaths["Suicide"] by one in both records and changes
\* no Kills counter and no other Deaths counter.
C9_SuicideCountedOnce ==
    [][(ProcessStep /\ PlayerName # <<>>
        /\ LastRawLogLine'.killTrig
        /\ LastRawLogLine'.victim = PlayerName
        /\ LastRawLogLine'.killer = PlayerName) =>
         /\ Get(Stats'.Deaths, SuicideKey) = Get(Stats.Deaths, SuicideKey) + 1
         /\ Get(SessionStats'.Deaths, SuicideKey)
              = Get(SessionStats.Deaths, SuicideKey) + 1
         /\ Stats'.Kills = Stats.Kills
         /\ SessionStats'.Kills = SessionStats.Kills
         /\ \A k \in (Keys \cup DOMAIN Stats'.Deaths \cup DOMAIN SessionStats'.Deaths)
                     \ {SuicideKey} :
              /\ Get(Stats'.Deaths, k) = Get(Stats.Deaths, k)
              /\ Get(SessionStats'.Deaths, k) = Get(SessionStats.Deaths, k)]_vars

\* A suicide line of the identity was processed and counted.
C9_Witness ==
    /\ PlayerName = Ann
    /\ LastRawLogLine.killTrig
    /\ LastRawLogLine.victim = Ann
    /\ LastRawLogLine.killer = Ann
    /\ Get(SessionStats.Deaths, SuicideKey) = 1

\* The line is a kill line of the identity for victim v: CActor::Kill: 'v'
\* ... killed by '<identity>', with v a word other than the identity.
IsKillLineFor(l, v) ==
    l.killTrig /\ l.killer = PlayerName /\ l.victim = v /\ v # PlayerName
    /\ v # <<>> /\ \A i \in DOMAIN v : v[i] \in WordChars

\* C10: with no reset, each ProcessLogLine call of a kill line for victim v
\* adds exactly one to Kills[v] in the session and in the all-time record,
\* every other call leaves Kills[v] as it is in both (so after N such lines
\* the session holds N and the all-time record its loaded value plus N), the
\* all-time record starts as the record loaded when the identity is resolved,
\* and no counter of either record ever decreases.
C10_KillsCounted ==
    [][/\ (ProcessStep /\ PlayerName # <<>>) =>
            \A v \in Keys \cup DOMAIN Stats'.Kills \cup DOMAIN SessionStats'.Kills :
              /\ Get(Stats'.Kills, v) = Get(Stats.Kills, v)
                   + (IF IsKillLineFor(LastRawLogLine', v) THEN 1 ELSE 0)
              /\ Get(SessionStats'.Kills, v) = Get(SessionStats.Kills, v)
                   + (IF IsKillLineFor(LastRawLogLine', v) THEN 1 ELSE 0)
       /\ (PlayerName = <<>> /\ PlayerName' # <<>>) =>
            /\ SessionStats' = New
            /\ Stats' = IF PlayerName' \in DOMAIN files /\ files[PlayerName'].valid
                        THEN Decode(files[PlayerName'].s) ELSE New
       /\ (~ProcessStep /\ PlayerName # <<>>) =>
            (Stats' = Stats /\ SessionStats' = SessionStats)
       /\ \A c \in Categories :
            \A k \in Keys \cup DOMAIN Stats[c] \cup DOMAIN SessionStats[c] :
              /\ Get(Stats'[c], k) >= Get(Stats[c], k)
              /\ Get(SessionStats'[c], k) >= Get(SessionStats[c], k)]_vars

\* Two kill lines for Bob were processed on top of a loaded count of 2.
C10_Witness ==
    /\ PlayerName = Ann
    /\ Get(SessionStats.Kills, Bob) = 2
    /\ Get(Stats.Kills, Bob) = 4

\* The step is a reset call of the UI.
ResetStep == op'.n = op.n + 1

\* The session record of a player as the UI reads it, in a state with
\* registry reg and processor record ss.
SessionRecord(reg, ss, player) == GetCurrentSession(reg, [core |-> ss], player)

\* What a ResetAllTime call leaves alone: the stored record of every other
\* player and the session record of every player.
ResetFrame ==
    /\ \A q \in (ResetPlayers \cup DOMAIN files \cup DOMAIN files') \ {op'.player} :
         /\ q \in DOMAIN files' <=> q \in DOMAIN files
         /\ q \in DOMAIN files => files'[q] = files[q]
    /\ \A q \in ResetPlayers :
         SessionRecord(currentSessionStats', SessionStats', q)
           = SessionRecord(currentSessionStats, SessionStats, q)

C12_RoundTrip == rt.pc = "loaded" => rt.got = rt.s

\* The Save of the step did not persist the all-time record of the step.
SaveFailed ==
    ~(/\ PlayerName \in DOMAIN files'
      /\ files'[PlayerName] = [valid |-> TRUE, s |-> Encode(Stats')])

\* The messages a call delivers for facts: those its flush returned and the
\* immediate message of a kill or an incapacitation.
FlushedNow ==
    IF flushLog' # flushLog THEN Range(flushLog'[Len(flushLog')].messages) ELSE {}
ImmediateMessages ==
    {"You killed: " \o Str(v) : v \in Keys}
    \cup {"You killed: " \o Str(v) \o " using " \o Str(cleanName(Gun)) : v \in Keys}
    \cup IncapMessages

\* C13 (as claimed): a ProcessLogLine call that records a fact and whose Save
\* fails keeps the increment in memory and delivers a message that is no
\* message of a fact (the advisory).
C13_SaveFailureAdvisory ==
    [][(ProcessStep /\ PlayerName # <<>> /\ Stats' # Stats /\ SaveFailed) =>
         /\ \E c \in Categories, k \in Keys : Get(Stats'[c], k) = Get(Stats[c], k) + 1
         /\ \E k \in DOMAIN out' :
              out'[k].line \notin (FlushedNow \cup ImmediateMessages)]_vars

\* C14 (as claimed): in a ProcessLogLine call either a counter is incremented,
\* the record is persisted and a fact is enqueued, or none of the three
\* happens.
C14_AtomicFact ==
    [][(ProcessStep /\ PlayerName # <<>>) =>
         \/ /\ Stats' # Stats
            /\ ~SaveFailed
            /\ nextId' = nextId + 1
         \/ /\ Stats' = Stats /\ SessionStats' = SessionStats
            /\ files' = files
            /\ nextId' = nextId]_vars

\* The call of the step, had it run at wall-clock time `now` with its Save
\* ending in `outcome` and its flush ranging over its groups in `order`,
\* emits the messages and leaves the buffer and the counters that the step
\* has.
SameResult(now, outcome, order) ==
    LET m == Processed(LastRawLogLine', LogTime(LastRawLogLine', now), outcome, order)
    IN  /\ m.out = out'
        /\ m.buf = PendingEvents'
        /\ m.Stats = Stats'
        /\ m.SessionStats = SessionStats'

\* The step's result does not depend on the wall clock, the Save outcome or
\* the order of the groups.
StepDeterministic ==
    \A now \in Clock, outcome \in SaveOutcomes :
      \A order \in Orders(OldPlayers(LogTime(LastRawLogLine', now))) :
        SameResult(now, outcome, order)

\* C15 (as claimed): from the same state the same line gives the same
\* messages, buffer and counters whatever the wall-clock time of the call,
\* also for a line without a parseable timestamp (with this for every step,
\* two runs over the same lines from the same initial state stay equal).
C15_Deterministic ==
    [][(ProcessStep /\ PlayerName # <<>>) => StepDeterministic]_vars

\* C15 (amended): from the same state a line that carries a parseable
\* timestamp gives the same messages, buffer and counters whatever the
\* wall-clock time of the call, the outcome of its Save and the order in which
\* the flush ranges over its groups; a call with no identity emits nothing
\* and leaves buffer and counters alone whatever the clock.
C15_DeterministicWithTimestamps ==
    [][/\ (ProcessStep /\ PlayerName # <<>> /\ LastRawLogLine'.stamp # <<>>) =>
            StepDeterministic
       /\ (ProcessStep /\ PlayerName = <<>>) =>
            (out' = <<>> /\ UNCHANGED <<PendingEvents, Stats, SessionStats>>)]_vars

\* A line with a timestamp was processed after an earlier fact: its call
\* flushed that fact, recorded a fact of its own and emitted two messages.
C15_Witness ==
    /\ PlayerName = Ann
    /\ LastRawLogLine.stamp = <<108>>
    /\ flushLog # <<>>
    /\ flushLog[Len(flushLog)].call = nlines
    /\ Len(out) = 2
    /\ Get(SessionStats.Kills, Bob) = 1

\* C16 (as claimed): with both goroutines running, the lines handed to
\* DetectPlayerName/ProcessLogLine are the lines appended after the initial
\* scan, each once and in file order, and no kill is counted more often than
\* the file has kill lines.
C16_HandedOnceInOrder ==
    watch.pc = "run" =>
      /\ \A i \in DOMAIN watch.handed : watch.handed[i] = watch.start + i
      /\ Get(SessionStats.Kills, Bob)
           <= Cardinality({i \in DOMAIN watch.file : watch.file[i].killTrig})

\* C20 (as claimed): the ProcessLogLine call of the closure whose
\* DetectPlayerName call resolved the identity enqueues no fact, increments no
\* counter and emits nothing.
C20_ResolvingLineNotClassified ==
    [][(ProcessStep /\ watch.ui.resolved) =>
         /\ nextId' = nextId
         /\ Stats' = Stats /\ SessionStats' = SessionStats
         /\ out' = <<>>]_vars

\* The rendering C17 gives for a vehicle destruction.
ClaimedVehicleMessage(e) ==
    "Vehicle " \o Str(cleanName(e.VehicleName)) \o " was "
    \o (IF e.Details.destroyLevel = <<"1">> THEN "disabled" ELSE "destroyed")
    \o " by " \o Str(e.Cause)
    \o (IF ToLower(e.Weapon) = CollisionLC THEN " (collision)"
        ELSE " using " \o Str(cleanName(e.Weapon)))

\* C17 (as claimed): a flush that takes one vehicle destruction alone returns
\* `Vehicle <cleaned name> was <status> by <cause>` followed by ` using
\* <cleaned weapon>`, or by ` (collision)` when the weapon is "Collision".
C17_VehicleMessage ==
    \A i \in DOMAIN flushLog :
      (Len(flushLog[i].events) = 1
       /\ flushLog[i].events[1].Type = EventVehicleDestruction)
      => flushLog[i].messages = <<ClaimedVehicleMessage(flushLog[i].events[1])>>

\* The rendering C18 gives for a death of the identity.
ClaimedDeathMessage(e) ==
    IF e.RawLine.victim = e.PlayerName /\ e.RawLine.killer = e.PlayerName
    THEN "You died by suicide"
    ELSE "You were killed by: " \o Str(e.RawLine.killer)
         \o (IF e.RawLine.using # <<>> THEN " using " \o Str(e.RawLine.using) ELSE "")

\* C18 (as claimed): a flush that takes one death alone returns `You were
\* killed by: <killer>`, followed by ` using <weapon>` exactly when the line
\* had a weapon, and `You died by suicide` for a self-inflicted death.
C18_DeathMessage ==
    \A i \in DOMAIN flushLog :
      (Len(flushLog[i].events) = 1 /\ flushLog[i].events[1].Type = EventPlayerDeath)
      => flushLog[i].messages = <<ClaimedDeathMessage(flushLog[i].events[1])>>

\* C19 (as claimed): a DetectPlayerName call that emits the notification
\* starts with no identity (so none was emitted before a resolved identity),
\* ends with a non-empty identity (so none is emitted afterwards) and with the
\* all-time record that Load returns for that name.
C19_NotifiedOnce ==
    [][(~ProcessStep) =>
         /\ PlayerName = <<>>
         /\ PlayerName' # <<>>
         /\ out' = <<Output("Detected player name: " \o Str(PlayerName'),
                            out'[1].logTime)>>
         /\ Stats' = Load(files, PlayerName')]_vars

\* No step of ProcessLogLine acts on the line for the resolved identity: it
\* matches none of the vehicle, kill, death, corpse and incapacitation
\* grammars.
NoEventGrammar(line) ==
    /\ ~(line.vehTrig /\ line.vehId # <<>>)
    /\ ~(line.killTrig /\ (SuicideMatch(line) \/ DeathMatch(line)
                           \/ MethodMatch(line) \/ KillMatch(line)))
    /\ ~((line.corpseWord \/ line.ctlState) /\ line.playerQ # <<>>
         /\ line.playerQ = PlayerName)
    /\ ~(line.incapTrig /\ WordPrefix(line.incapNick) # <<>>
         /\ WordPrefix(line.incapNick) # PlayerName)

\* The AppendOutput calls the flush of the step makes: one per message it
\* returned, with the logTime of the call.
FlushOutput ==
    IF flushLog' # flushLog
    THEN [k \in DOMAIN flushLog'[Len(flushLog')].messages |->
            Output(flushLog'[Len(flushLog')].messages[k], <<watermark'>>)]
    ELSE <<>>

\* C21 (as claimed): processing a line that matches no event grammar, the
\* identity being resolved, enqueues no fact, changes no counter, persists
\* nothing and delivers no message.
C21_UnmatchedLineSilent ==
    [][(ProcessStep /\ PlayerName # <<>> /\ NoEventGrammar(LastRawLogLine')) =>
         /\ nextId' = nextId
         /\ UNCHANGED <<Stats, SessionStats, files, currentSessionStats>>
         /\ out' = <<>>]_vars

\* C21 (amended): such a line enqueues no fact, changes no counter, persists
\* nothing and registers nothing; the only messages its call delivers are
\* those of the buffered events its flush takes, and the buffer keeps exactly
\* the events that are not old.
C21_UnmatchedLineOnlyFlushes ==
    [][(ProcessStep /\ PlayerName # <<>> /\ NoEventGrammar(LastRawLogLine')) =>
         /\ nextId' = nextId
         /\ UNCHANGED <<Stats, SessionStats, files, currentSessionStats>>
         /\ out' = FlushOutput
         /\ PendingEvents' = RemainingEvents(PendingEvents, watermark')]_vars

\* A line without any fragment was processed for identity Ann and its call
\* delivered the message of an event buffered earlier.
C21_Witness ==
    /\ PlayerName = Ann
    /\ LastRawLogLine = At(Blank, 108)
    /\ flushLog # <<>>
    /\ flushLog[Len(flushLog)].call = nlines
    /\ out # <<>>
    /\ Stats = New

\* The message FlushOldEvents builds for event e among the old events `old`:
\* the summary of its group, else its individual message.
MessageFor(e, old) ==
    IF createMissionSummary(GroupOf(old, e.PlayerName)) # ""
    THEN createMissionSummary(GroupOf(old, e.PlayerName))
    ELSE CreateIndividualEventMessage(e)

\* C22: flushing is driven only by incoming lines.  A step that is no
\* ProcessLogLine call leaves the buffer alone and flushes nothing.  A
\* ProcessLogLine call with time t takes out of the buffer every event whose
\* timestamp t exceeds by more than TimeWindow, and delivers its message
\* (its own or the summary of its group) during that call; every other
\* buffered event stays in the buffer and is not flushed.
C22_FlushDrivenByLines ==
    [][/\ ~ProcessStep => UNCHANGED <<PendingEvents, flushLog>>
       /\ (ProcessStep /\ PlayerName # <<>>) =>
            \A k \in DOMAIN PendingEvents :
               LET e == PendingEvents[k] IN
               IF watermark' - e.Timestamp > TimeWindow
               THEN /\ e.id \notin BufferIds'
                    /\ Len(flushLog') = Len(flushLog) + 1
                    /\ flushLog'[Len(flushLog')].call = nlines'
                    /\ \E i \in DOMAIN flushLog'[Len(flushLog')].events :
                         flushLog'[Len(flushLog')].events[i] = e
                    /\ \E j \in DOMAIN out' :
                         out'[j].line = MessageFor(e, flushLog'[Len(flushLog')].events)
               ELSE /\ \E i \in DOMAIN PendingEvents' : PendingEvents'[i] = e
                    /\ \A i \in DOMAIN flushLog' \ DOMAIN flushLog :
                         \A j \in DOMAIN flushLog'[i].events :
                            flushLog'[i].events[j].id # e.id]_vars

\* The last call flushed the event of 09:59:54 and kept the one of 10:00:00 in
\* the buffer: its line is stamped 10:00:05.
C22_Witness ==
    /\ flushLog # <<>>
    /\ flushLog[Len(flushLog)].call = nlines
    /\ watermark = 105
    /\ \E j \in DOMAIN out : out[j].line = "Vehicle G X was destroyed by Collision"
    /\ \E i \in DOMAIN flushLog[Len(flushLog)].events :
         flushLog[Len(flushLog)].events[i].Timestamp = 94
    /\ \E i \in DOMAIN PendingEvents : PendingEvents[i].Timestamp = 100

\* The messages the step delivers.
Delivered == {out'[j].line : j \in DOMAIN out'}

\* Event e leaves the buffer in the step.
Taken(e) == e.id \notin BufferIds'

IsOwnKillLine(l) ==
    /\ l.killTrig
    /\ ~SuicideMatch(l)
    /\ ~DeathMatch(l)
    /\ MethodMatch(l) \/ KillMatch(l)

\* C24 (as claimed): a ProcessLogLine call on a kill by the observed player
\* hands the kill to the aggregator as a pending event carrying the line, and
\* delivers no `You killed: ...` message during that call.
C24_KillBuffered ==
    [][(ProcessStep /\ PlayerName # <<>> /\ IsOwnKillLine(LastRawLogLine')) =>
         /\ nextId' = nextId + 1
         /\ \E k \in DOMAIN PendingEvents' :
              PendingEvents'[k].id = nextId /\ PendingEvents'[k].RawLine = LastRawLogLine'
         /\ \A j \in DOMAIN out' :
              out'[j].line \notin (ImmediateMessages \ IncapMessages)]_vars

\* C25 (as claimed): the raw line delivered alongside each message of a flush
\* is the RawLine of a buffered event that the message stands for.
C25_RawLineOfFact ==
    [][(ProcessStep /\ flushLog' # flushLog) =>
         \A k \in DOMAIN flushLog'[Len(flushLog')].messages :
            \E i \in DOMAIN flushLog'[Len(flushLog')].events :
               LET e == flushLog'[Len(flushLog')].events[i] IN
               /\ MessageFor(e, flushLog'[Len(flushLog')].events)
                    = flushLog'[Len(flushLog')].messages[k]
               /\ AppendOutputWithRaw(out'[k], LastRawLogLine').line
                    = flushLog'[Len(flushLog')].messages[k]
               /\ AppendOutputWithRaw(out'[k], LastRawLogLine').raw = e.RawLine]_vars

\* The groups createMissionSummary was called with so far: for each flush, the
\* old events of each player, in buffer (arrival) order.
FlushedGroups ==
    UNION {{GroupOf(flushLog[i].events, flushLog[i].events[k].PlayerName) :
              k \in DOMAIN flushLog[i].events} : i \in DOMAIN flushLog}

\* C26 (as claimed): the sort of createMissionSummary leaves every group it
\* is called with in non-decreasing timestamp order, events with equal
\* timestamps in their arrival order.
C26_SortStable ==
    \A g \in FlushedGroups :
       \A i, j \in DOMAIN g :
          i < j =>
            /\ SortEvents(g)[i].Timestamp <= SortEvents(g)[j].Timestamp
            /\ SortEvents(g)[i].Timestamp = SortEvents(g)[j].Timestamp =>
                 SortEvents(g)[i].id < SortEvents(g)[j].id

\* C27 (as claimed): a flush whose old events form one group without a
\* combined summary returns one individual message per event, in the order
\* in which the events were enqueued.
C27_ArrivalOrder ==
    \A i \in DOMAIN flushLog :
       LET g == flushLog[i].events IN
       (/\ \A k \in DOMAIN g : g[k].PlayerName = g[1].PlayerName
        /\ createMissionSummary(g) = "") =>
         flushLog[i].messages = [k \in DOMAIN g |-> CreateIndividualEventMessage(g[k])]

\* The crash flag as claimed: the cause or the weapon of a vehicle
\* destruction or of a death of the group is "collision" or "crash", whatever
\* the case of its letters.
ClaimedCrashFlag(g) ==
    \E k \in DOMAIN g :
       /\ g[k].Type \in {EventVehicleDestruction, EventPlayerDeath}
       /\ \/ ToLower(g[k].Cause) \in {CollisionLC, CrashLC}
          \/ ToLower(g[k].Weapon) \in {CollisionLC, CrashLC}

\* C28 (as claimed): a flush whose old events hold a destruction of vehicle
\* G_X_7 and a death of the identity, with the crash flag as claimed, returns
\* the combined message and nothing else.
C28_CrashFlagEitherWord ==
    \A i \in DOMAIN flushLog :
       LET g == flushLog[i].events IN
       (/\ \E k \in DOMAIN g : g[k].Type = EventVehicleDestruction
        /\ \E k \in DOMAIN g : g[k].Type = EventPlayerDeath
        /\ ClaimedCrashFlag(g)) =>
         flushLog[i].messages =
           << "Mission Event: " \o Str(g[1].PlayerName) \o " crashed their "
              \o Str(cleanName(Ship)) \o " and died" >>

\* The line is a corpse or control-state line that names `name`.
IsCorpseLineOf(l, name) ==
    /\ l.corpseWord \/ l.ctlState
    /\ l.playerQ # <<>>
    /\ l.playerQ = name

\* C29: a ProcessLogLine call enqueues an actor-state event only when its
\* line is a corpse or control-state line naming the identity, and every
\* `You turned to a corpse` a flush returns stands for an event of the
\* identity built from such a line.
C29_CorpseOnlyForIdentity ==
    [][ProcessStep =>
         /\ \A k \in DOMAIN PendingEvents' :
              (PendingEvents'[k].id >= nextId
               /\ PendingEvents'[k].Type = EventActorState) =>
                /\ IsCorpseLineOf(LastRawLogLine', PlayerName)
                /\ PendingEvents'[k].PlayerName = PlayerName
         /\ (\E n \in {Ann, Eve, Bob} \ {PlayerName} :
               IsCorpseLineOf(LastRawLogLine', n)) => nextId' = nextId
         /\ \A i \in DOMAIN flushLog' :
              \A j \in DOMAIN flushLog'[i].messages :
                 flushLog'[i].messages[j] = "You turned to a corpse" =>
                   \E k \in DOMAIN flushLog'[i].events :
                      /\ flushLog'[i].events[k].Type = EventActorState
                      /\ flushLog'[i].events[k].PlayerName = PlayerName
                      /\ IsCorpseLineOf(flushLog'[i].events[k].RawLine, PlayerName)]_vars

\* A corpse line of Ann was enqueued and flushed as `You turned to a corpse`;
\* the control-state line of Bob processed last enqueued nothing.
C29_Witness ==
    /\ PlayerName = Ann
    /\ LastRawLogLine = At(ControlStateLine(Bob), 102)
    /\ nextId = 1
    /\ flushLog # <<>>
    /\ flushLog[1].messages = <<"You turned to a corpse">>
    /\ flushLog[1].events[1].RawLine = At(CorpseLine(Ann), 102)
    /\ PendingEvents = <<>>

\* The step is a ResetCurrentSession call.
SessionResetStep == op'.sess = op.sess + 1

\* C30 (as claimed): after a ResetCurrentSession call GetCurrentSession
\* returns an empty record for every player; and the first fact recorded for
\* the identity after the reset leaves a session record that counts that
\* fact alone.
C30_SessionResetHolds ==
    [][/\ SessionResetStep =>
            \A q \in ResetPlayers \cup {PlayerName} :
               SessionRecord(currentSessionStats', SessionStats', q) = New
       /\ (/\ ProcessStep
           /\ op.sess > 0
           /\ PlayerName \notin DOMAIN currentSessionStats
           /\ SessionStats' # SessionStats) =>
            \A c \in Categories, k \in Keys :
               Get(SessionRecord(currentSessionStats', SessionStats', PlayerName)[c], k)
                 = Get(SessionStats'[c], k) - Get(SessionStats[c], k)]_vars

\* The file of the player is missing, does not decode, or lacks a member.
NoCompleteRecord(player) ==
    \/ player \notin DOMAIN files
    \/ ~files[player].valid
    \/ DOMAIN files[player].s # StatsFields

\* C31 (as claimed): Load of a missing, corrupt or incomplete record returns
\* four empty mappings, and recording the next fact in the record Load
\* returned does not fail.
C31_LoadUsable ==
    /\ (rt.pc = "loaded" /\ NoCompleteRecord(rt.p)) => rt.got = New
    /\ rt.pc # "panic"

WatchIdle ==
    /\ watch.pc = "run"
    /\ watch.events = 0
    /\ \A g \in Readers : watch.r[g].pc = "wait"
    /\ watch.ui = NoClosure
    /\ ~(Len(watch.file) - watch.base > watch.offset)

\* C33 (as claimed): after a truncation every line written since has been
\* handed to the engine once the watcher has nothing left to do.
C33_NoLineSkippedAfterTruncation ==
    (WatchIdle /\ watch.truncs > 0) =>
       \A i \in (watch.base + 1)..Len(watch.file) :
          \E k \in DOMAIN watch.handed : watch.handed[k] = i

\* The step is a convertLogToHistory call.
ConvertStep == op'.convs = op.convs + 1

\* C34 (as claimed): a conversion writes no stats file and leaves the session
\* record GetCurrentSession returns for every player as it was.
C34_ConversionLeavesStats ==
    [][ConvertStep =>
         /\ files' = files
         /\ \A q \in ResetPlayers :
              GetCurrentSession(currentSessionStats',
                                [core |-> SessionStats', conv |-> op'.conv], q)
                = GetCurrentSession(currentSessionStats,
                                    [core |-> SessionStats, conv |-> op.conv], q)]_vars

\* C35 (as claimed): once ResetAllTime has emptied the stored record of the
\* engine's identity, the record stored for the identity counts no more than
\* the facts the engine has recorded since that call.
C35_ResetDurable ==
    (/\ op.at # <<>>
     /\ PlayerName \in DOMAIN files
     /\ files[PlayerName].valid) =>
       \A c \in Categories, k \in Keys :
          Get(Load(files, PlayerName)[c], k) <= Get(Stats[c], k) - Get(op.at[1][c], k)

\* The old events hold a vehicle destruction, a death of the identity, and a
\* collision as the cause or weapon of a destruction or a crash as the cause
\* or weapon of a death.
CrashGroup(g) ==
    /\ \E k \in DOMAIN g : g[k].Type = EventVehicleDestruction
    /\ \E k \in DOMAIN g : g[k].Type = EventPlayerDeath /\ g[k].PlayerName = PlayerName
    /\ \/ \E k \in DOMAIN g :
            /\ g[k].Type = EventVehicleDestruction
            /\ ToLower(g[k].Cause) = CollisionLC \/ ToLower(g[k].Weapon) = CollisionLC
       \/ \E k \in DOMAIN g :
            /\ g[k].Type = EventPlayerDeath
            /\ ToLower(g[k].Cause) = CrashLC \/ ToLower(g[k].Weapon) = CrashLC

C37_NoEventLostSilently ==
    /\ \A i \in DOMAIN flushLog :
         flushLog[i].events # <<>> => flushLog[i].messages # <<>>
    /\ (rt.pc = "summary" /\ rt.related # <<>>) => rt.ret # ""

\* C38: every buffered event carries the engine's identity, which is not
\* empty; so the old events of every flush form at most one group, and the
\* messages of the flush are the same in whatever order the groups are taken.
C38_BufferOwnedByIdentity ==
    /\ \A k \in DOMAIN PendingEvents :
         PlayerName # <<>> /\ PendingEvents[k].PlayerName = PlayerName
    /\ \A i \in DOMAIN flushLog :
         LET names == {e.PlayerName : e \in Range(flushLog[i].events)}
         IN  /\ names \subseteq {PlayerName}
             /\ \A o \in Orders(names) :
                  MessagesInOrder(flushLog[i].events, o) = flushLog[i].messages

\* A flush has taken two events while a later event waits in the buffer.
C38_Witness ==
    /\ Len(PendingEvents) >= 1
    /\ \E i \in DOMAIN flushLog : Len(flushLog[i].events) >= 2
         /\ Len(flushLog[i].messages) >= 2

\* C39: in every ProcessLogLine call of a resolved engine the messages of the
\* events flushed by the call come first in its output, before anything the
\* line emits itself, and the events the line adds to the buffer are in the
\* buffer after the call and not among the events the call flushed.
C39_FlushComesFirst ==
    [][(ProcessStep /\ PlayerName # <<>>) =>
         /\ Len(out') >= Len(FlushOutput)
         /\ SubSeq(out', 1, Len(FlushOutput)) = FlushOutput
         /\ \A id \in nextId .. (nextId' - 1) :
              /\ id \in BufferIds'
              /\ \A i \in DOMAIN flushLog' \ DOMAIN flushLog :
                   \A j \in DOMAIN flushLog'[i].events :
                      flushLog'[i].events[j].id # id]_vars

\* The last call flushed events and then emitted a message of its own line.
C39_Witness ==
    /\ flushLog # <<>>
    /\ flushLog[Len(flushLog)].call = nlines
    /\ flushLog[Len(flushLog)].messages # <<>>
    /\ Len(out) > Len(flushLog[Len(flushLog)].messages)
    /\ out[1].line = flushLog[Len(flushLog)].messages[1]

\* C40: the notification stack never holds more than three entries; a
\* notification is shown exactly while it is in the stack, and one whose
\* timer is still running is in the stack (the fourth call hides the oldest
\* and stops its timer); and every notification that is shown is eventually
\* hidden and out of the stack.
C40_StackBoundedAndCleared ==
    /\ [](/\ Len(notifications) <= 3
          /\ \A n \in DOMAIN popups :
               /\ popups[n].visible <=> n \in Range(notifications)
               /\ popups[n].timer = "armed" => n \in Range(notifications))
    /\ \A n \in 1..MaxPopups :
         (n \in DOMAIN popups /\ popups[n].visible)
           ~> (n \in DOMAIN popups /\ ~popups[n].visible
               /\ n \notin Range(notifications))

\* The fourth call has hidden the oldest notification and stopped its timer,
\* and another notification has been hidden by its own timer.
C40_Witness ==
    /\ Len(popups) >= 4
    /\ popups[1].timer = "stopped" /\ ~popups[1].visible
    /\ 1 \notin Range(notifications)
    /\ \E n \in DOMAIN popups : popups[n].timer = "done" /\ ~popups[n].visible

====
